---- MODULE Spec2Model ----
(***************************************************************************)
(* A model of the cross-cutting infrastructure of arc.js:                  *)
(*   - Web3EventService: EventFetcher (array normalisation, duplicate      *)
(*     suppression) and EntityFetcher (asynchronous transform of a batch), *)
(*   - ProposalService.getProposalEvents (votable filtering),              *)
(*   - TransactionService over the pub/sub bus (kick-off and tx envelopes, *)
(*     re-publishing), and the wrappers that publish through it.           *)
(***************************************************************************)
EXTENDS Integers, Sequences, FiniteSets, TLC

\* ------------------------------------------------------------------ bounds
\* The number of get calls and watch firings the underlying source answers.
MaxDeliveries == 2
\* The same under the EntityFetcher of getProposalEvents.
MaxProposalCalls == 1
\* The number of log entries the source hands over in one run, all deliveries
\* together (one array may hold all of them).
MaxEntries == 3

\* The number of subscriptions made on the pub/sub bus.
MaxSubscriptions == 2
\* The number of function invocations that publish through TransactionService.
MaxInvocations == 2
\* The number of publishes on the bus, re-publishes included.
MaxPublishes == 3
\* The depth of nested publishes (a subscriber's callback publishing again).
MaxDepth == 2
\* The number of calls callers make on the bus and on TransactionService.
MaxBusCalls == 5
\* The longest topic string of the topic-matching check.
MaxTopicLen == 3
\* The longest list of topics of the topic-matching check.
MaxTopics == 2

\* ------------------------------------------------------------ value domains
\* JavaScript's null / undefined for an error argument.
NoError == "null"
\* The error the underlying web3 source may report.
SourceError == "E_source"

\* Log entries (DecodedLogEntryEvent): two entries of transaction h1 at
\* different log positions, and one entry of transaction h2.
Events ==
  { [transactionHash |-> "h1", logIndex |-> 0, args |-> [_proposalId |-> "p1"]],
    [transactionHash |-> "h1", logIndex |-> 1, args |-> [_proposalId |-> "p2"]],
    [transactionHash |-> "h2", logIndex |-> 0, args |-> [_proposalId |-> "p1"]] }

Hashes == { e.transactionHash : e \in Events }

RECURSIVE SeqsUpTo(_, _)
\* All sequences over S of length at most n.
SeqsUpTo(S, n) ==
  IF n = 0 THEN { <<>> }
  ELSE LET shorter == SeqsUpTo(S, n - 1)
       IN  shorter \cup { Append(s, x) : s \in shorter, x \in S }

\* A JavaScript value handed over as `log`: an array, or one bare entry.
ArrayOf(items) == [isArray |-> TRUE, items |-> items]
EntryOf(evt) == [isArray |-> FALSE, items |-> <<evt>>]

\* What the underlying source (web3 / Truffle) may pass to its callback:
\* an error, one bare log entry, or an array of at most n entries.
Deliveries(E, n) ==
  { [error |-> SourceError, log |-> ArrayOf(<<>>)] }
    \cup { [error |-> NoError, log |-> EntryOf(e)] : e \in IF n > 0 THEN E ELSE {} }
    \cup { [error |-> NoError, log |-> ArrayOf(s)] : s \in SeqsUpTo(E, n) }

\* ------------------------------------------------------------------- state
VARIABLES
  layer,           \* "events": the caller holds an EventFetcher;
                   \* "entities": the caller holds an EntityFetcher over it;
                   \* "proposals": a ProposalService over an EventFetcher
  suppressDups,    \* filterObject.suppressDups: "true", "false" or "undefined"
  preProcessEvent, \* createEventFetcherFactory's preProcessEvent: "none" when
                   \* not supplied, else what the hook does
  receivedEvents,  \* createEventHandler's Set<Hash>, or undefined
  pipeline,        \* the EntityFetcher's transformEventCallback: "plain" (the
                   \* caller's own), or getProposalEvents of "part_006"/"part_007",
                   \* or "piped": the factory went through pipeEntityFetcherFactory,
                   \* or "lib": the EntityFetcher of src/lib/web3EventService.ts
  votableOnly,     \* getProposalEvents' votableOnly option
  hasService,      \* whether options.votingMachineService was supplied
  isVotable,       \* votingMachineService.isVotable, by proposalId
  domainTransform, \* the caller's transformEventCallback, by proposalId
  secondTransform, \* the transformEventCallback given to pipeEntityFetcherFactory
  factory,         \* the call that made the fetcher's factory: not made yet,
                   \* returned, or threw (with its error)
  calls            \* one record per get call / watch firing the source answered

\* What the caller fixes when it makes the fetcher.
configVars == <<layer, suppressDups, preProcessEvent, pipeline, votableOnly, hasService,
                isVotable, domainTransform, secondTransform>>

VARIABLES
  argFilter,           \* the argFilter the caller of a factory wrote
  entityBaseArgFilter, \* createEntityFetcherFactory's baseArgFilter
  eventBaseArgFilter,  \* createEventFetcherFactory's baseArgFilter
  eventArgFilter,      \* the argFilter the EventFetcherFactory was called with
  sourceArgFilter,     \* the argFilter the contract's event was called with
  callerArgFilter      \* the caller's argFilter object as it is now

filterVars == <<argFilter, entityBaseArgFilter, eventBaseArgFilter,
                eventArgFilter, sourceArgFilter, callerArgFilter>>

VARIABLES
  otherReceivedEvents, \* the Set<Hash> of a second fetcher made by the factory
  otherCalls           \* the calls of the second fetcher the source answered

otherVars == <<otherReceivedEvents, otherCalls>>

VARIABLES
  watching         \* whether the contract's event has the fetcher's watch
                   \* handler registered (baseEvent.watch called, and
                   \* baseEvent.stopWatching not since)

fetcherVars == <<configVars, filterVars, receivedEvents, factory, calls, otherVars,
                 watching>>

VARIABLES
  subs,            \* the bus's subscriptions, in the order they were made
  published,       \* every publish on the bus so far, in call order
  overflow,        \* a publish nested deeper than MaxDepth: the bus has stopped
  invocations      \* the function invocations publishing through the bus

busVars == <<subs, published, overflow, invocations>>

VARIABLES
  topicArgs,       \* the arguments of a call of isTopicSpecifiedBy
  topicMatched     \* its result: "none" before the call, then "true" / "false"

topicVars == <<topicArgs, topicMatched>>

VARIABLES
  votingCall,      \* a call on a ProposalVotingMachineService: the operation,
                   \* the proposal the service is bound to, the arguments
  votingOutcome    \* what the call came to: nothing yet, a contract call, an error

votingVars == <<votingCall, votingOutcome>>

VARIABLES
  psOptions,       \* the operation of ProposalService (src/lib/proposalService.ts)
                   \* a caller calls, with its options
  psOutcome,       \* what the call has come to so far
  votingMachine    \* what the voting machine contract of the avatar answers:
                   \* getNumberOfChoices, isAbstainAllow, voteStatus by choice

proposalVars == <<psOptions, psOutcome, votingMachine>>

serviceVars == <<votingVars, proposalVars>>

\* `receivedEvents` is either undefined or a Set of transaction hashes.
UndefinedSet == [defined |-> FALSE, set |-> {}]
NewSet == [defined |-> TRUE, set |-> {}]

\* ------------------------------------------- Web3EventService.createEventHandler
\* `!!suppressDups`: of "true", "false" and undefined only true is truthy.
Truthy(flag) == flag = "true"

\* createEventHandler: the Set is created only when suppressDups is truthy.
createEventHandler(flag) == IF Truthy(flag) THEN NewSet ELSE UndefinedSet

\* NormalizeLog without the `[log]` wrapping of a bare entry.
NormalizeLog_NoWrap(error, log) ==
  IF error # NoError THEN ArrayOf(<<>>) ELSE log

\* "always provide an array": [] on error, [log] for a bare entry.
NormalizeLog(error, log) ==
  IF error # NoError THEN ArrayOf(<<>>)
  ELSE IF ~log.isArray THEN ArrayOf(log.items)
  ELSE log

RECURSIVE FilterDups(_, _)
\* log.filter(...) over the Set: an entry passes when its transactionHash is
\* not in the Set yet, and passing adds the hash.
FilterDups(items, seen) ==
  IF items = <<>> THEN [items |-> <<>>, seen |-> seen]
  ELSE LET evt == Head(items)
       IN  IF evt.transactionHash \notin seen
           THEN LET rest == FilterDups(Tail(items), seen \cup {evt.transactionHash})
                IN  [items |-> <<evt>> \o rest.items, seen |-> rest.seen]
           ELSE FilterDups(Tail(items), seen)

\* PruneDups with a filter that records the hashes and lets every entry pass.
PruneDups_KeepsAll(log, received) ==
  IF received.defined /\ Len(log.items) > 0
  THEN [log |-> log,
        received |-> [defined |-> TRUE,
                      set |-> FilterDups(log.items, received.set).seen]]
  ELSE [log |-> log, received |-> received]

\* "optionally prune duplicate events": only with a Set and a non-empty log.
PruneDups(log, received) ==
  IF received.defined /\ Len(log.items) > 0
  THEN LET f == FilterDups(log.items, received.set)
       IN  [log |-> [isArray |-> log.isArray, items |-> f.items],
            received |-> [defined |-> TRUE, set |-> f.seen]]
  ELSE [log |-> log, received |-> received]

\* log.map(l => l.args)
ArgsOf(items) == [i \in 1..Len(items) |-> items[i].args]

\* The preProcessEvent hooks callers supply: one that returns what it was
\* given, one that reports an error of its own, one that clears the error,
\* one that withholds the log.
Hooks == {"keeps", "setsError", "clearsError", "emptiesLog"}
HookError == "E_hook"

\* preProcessEvent(error, log): the { error, log } the hook returns.
PreProcess(hook, error, log) ==
  CASE hook = "setsError" -> [error |-> HookError, log |-> log]
    [] hook = "clearsError" -> [error |-> NoError, log |-> log]
    [] hook = "emptiesLog" -> [error |-> error, log |-> ArrayOf(<<>>)]
    [] OTHER -> [error |-> error, log |-> log]

\* The function createEventHandler returns, applied to one (error, log):
\* the (error, log) it passes to the callback, the array of args it returns,
\* and the Set afterwards.
\* The second half of the handler: the hook, when there is one, replaces
\* (error, log); the callback gets the result and the args are returned.
Deliver(error, pruned, processedResult) ==
  [hookCalled |-> preProcessEvent # "none",
   hookError |-> IF preProcessEvent # "none" THEN error ELSE NoError,
   hookLog |-> IF preProcessEvent # "none" THEN pruned.log ELSE ArrayOf(<<>>),
   cbError |-> processedResult.error,
   cbLog |-> processedResult.log,
   ret |-> [isArray |-> processedResult.log.isArray,
            items |-> ArgsOf(processedResult.log.items)],
   received |-> pruned.received]

handleEvent(error, log, received) ==
  LET pruned == PruneDups(NormalizeLog(error, log), received)
  IN  Deliver(error, pruned,
              IF preProcessEvent # "none"
              THEN PreProcess(preProcessEvent, error, pruned.log)
              ELSE [error |-> error, log |-> pruned.log])

\* --------------------------------- EventFetcher (createEventFetcherFactory)
\* The outcome of a get or watch whose answer went through handleEvent with
\* result h: get's promise resolves to what handleEvent returned.
Handled(h, promise) ==
  [hookCalled |-> h.hookCalled, hookError |-> h.hookError, hookLog |-> h.hookLog,
   cbCalled |-> TRUE, cbError |-> h.cbError, cbLog |-> h.cbLog,
   promise |-> promise,
   value |-> IF promise = "resolved" THEN h.ret ELSE ArrayOf(<<>>),
   reason |-> NoError,
   received |-> h.received]

\* An EventFetcher.watch that keeps a source error from the callback.
EventFetcherWatch_DropsError(d, received) ==
  IF d.error # NoError
  THEN [hookCalled |-> FALSE, hookError |-> NoError, hookLog |-> ArrayOf(<<>>),
        cbCalled |-> FALSE, cbError |-> NoError, cbLog |-> ArrayOf(<<>>),
        promise |-> "none", value |-> ArrayOf(<<>>), reason |-> NoError,
        received |-> received]
  ELSE Handled(handleEvent(d.error, d.log, received), "none")

\* An EventFetcher.get that hands every answer of the source to handleEvent.
EventFetcherGet_NoReject(d, received) ==
  Handled(handleEvent(d.error, d.log, received), "resolved")

\* The outcome of EventFetcher.get for one answer of the source: on an error
\* the promise rejects and neither handleEvent nor the callback runs.
EventFetcherGet(d, received) ==
  IF d.error # NoError
  THEN [hookCalled |-> FALSE, hookError |-> NoError, hookLog |-> ArrayOf(<<>>),
        cbCalled |-> FALSE, cbError |-> NoError, cbLog |-> ArrayOf(<<>>),
        promise |-> "rejected", value |-> ArrayOf(<<>>), reason |-> d.error,
        received |-> received]
  ELSE Handled(handleEvent(d.error, d.log, received), "resolved")

\* The outcome of one firing of EventFetcher.watch: handleEvent, always.
EventFetcherWatch(d, received) ==
  Handled(handleEvent(d.error, d.log, received), "none")

\* ------------------------------------------------ transformEventCallback
ProposalIds == { e.args._proposalId : e \in Events }

\* What a call of an asynchronous callback may come to.
TransformOutcomes == {"entity", "undefined", "throw"}
VotableOutcomes == {"true", "false", "throw"}

\* The entity the caller's transform builds from an event's args.
EntityOf(args) == [proposalId |-> args._proposalId, votingMachineService |-> "none"]
NoEntity == [proposalId |-> "none", votingMachineService |-> "none"]

\* The result of one call of a transform: its outcome, the entity (when the
\* outcome is "entity"), and the calls it made on the way.
TransformResult(outcome, entity, votableCalls, domainCalls) ==
  [outcome |-> outcome,
   entity |-> IF outcome = "entity" THEN entity ELSE NoEntity,
   votableCalls |-> votableCalls,
   domainCalls |-> domainCalls]

\* The caller's own transformEventCallback.
CallDomainTransform(args, votableCalls) ==
  TransformResult(domainTransform[args._proposalId], EntityOf(args),
                  votableCalls, <<args._proposalId>>)

\* getProposalEvents of part_006: isVotable is asked only when votableOnly.
TransformPart006(args) ==
  LET p == args._proposalId
  IN  IF votableOnly
      THEN IF ~hasService
           THEN TransformResult("throw", NoEntity, <<>>, <<>>)
           ELSE IF isVotable[p] = "throw"
           THEN TransformResult("throw", NoEntity, <<p>>, <<>>)
           ELSE IF isVotable[p] = "true"
                THEN CallDomainTransform(args, <<p>>)
                ELSE TransformResult("undefined", NoEntity, <<p>>, <<>>)
      ELSE CallDomainTransform(args, <<>>)

\* A part_007 transform whose factory is asked for the service of one fixed
\* proposal, whatever the event.
TransformPart007_OneService(args) ==
  LET p == args._proposalId
  IN  IF ~hasService
      THEN TransformResult("throw", NoEntity, <<>>, <<>>)
      ELSE IF isVotable[p] = "throw"
      THEN TransformResult("throw", NoEntity, <<p>>, <<>>)
      ELSE IF ~votableOnly \/ isVotable[p] = "true"
           THEN LET r == CallDomainTransform(args, <<p>>)
                IN  IF r.outcome = "entity" /\ isVotable[p] = "true"
                    THEN [r EXCEPT !.entity.votingMachineService = "p1"]
                    ELSE r
           ELSE TransformResult("undefined", NoEntity, <<p>>, <<>>)

\* getProposalEvents of part_007: isVotable is asked first, always; a votable
\* proposal's entity gets a ProposalVotingMachineService for its proposalId.
TransformPart007(args) ==
  LET p == args._proposalId
  IN  IF ~hasService
      THEN TransformResult("throw", NoEntity, <<>>, <<>>)
      ELSE IF isVotable[p] = "throw"
      THEN TransformResult("throw", NoEntity, <<p>>, <<>>)
      ELSE IF ~votableOnly \/ isVotable[p] = "true"
           THEN LET r == CallDomainTransform(args, <<p>>)
                IN  IF r.outcome = "entity" /\ isVotable[p] = "true"
                    THEN [r EXCEPT !.entity.votingMachineService = p]
                    ELSE r
           ELSE TransformResult("undefined", NoEntity, <<p>>, <<>>)

\* A transformEventCallback that goes straight to the caller's transform.
transformEventCallback_NoFilter(args) == CallDomainTransform(args, <<>>)

\* The transformEventCallback the EntityFetcherFactory was created with.
transformEventCallback(args) ==
  CASE pipeline \in {"plain", "piped"} -> CallDomainTransform(args, <<>>)
    [] pipeline = "part_006" -> TransformPart006(args)
    [] OTHER -> TransformPart007(args)

\* -------------------------------- EntityFetcher (createEntityFetcherFactory)
\* The EntityFetcher's side of one call: the entity handleEvent's progress
\* through the batch, promiseOfEntities, the caller's callback, get's promise.
EntityCall(getPromise) ==
  [started |-> FALSE, log |-> <<>>, next |-> 1, entities |-> <<>>,
   died |-> FALSE,
   promiseOfEntities |-> "none", reason |-> NoError,
   cbCalled |-> FALSE, cbError |-> NoError,
   getPromise |-> getPromise, getValue |-> <<>>, getReason |-> NoError,
   votableCalls |-> <<>>, domainCalls |-> <<>>]

\* resolve(await handleEvent(...)) in EntityFetcher.get: get's promise follows
\* promiseOfEntities when that resolves; nothing rejects it from there.
SettleGet(en) ==
  IF en.getPromise = "pending" /\ en.promiseOfEntities = "resolved"
  THEN [en EXCEPT !.getPromise = "resolved", !.getValue = en.entities]
  ELSE en

\* The entity handleEvent, up to its first await: it rejects on an error,
\* resolves at once for an empty log, and otherwise starts on the first event;
\* the callback gets the promise of entities in any case.
StartEntityHandler(en, error, log) ==
  LET begun == [en EXCEPT !.started = TRUE, !.log = log,
                          !.cbCalled = TRUE, !.cbError = error]
  IN  IF error # NoError
      THEN [begun EXCEPT !.promiseOfEntities = "rejected", !.reason = error]
      ELSE IF log = <<>>
      THEN [begun EXCEPT !.promiseOfEntities = "resolved"]
      ELSE [begun EXCEPT !.promiseOfEntities = "pending"]

\* The callback EntityFetcher.get hands to the EventFetcher's get.
EntityGetCallback(en, error, log) ==
  IF error # NoError
  THEN [en EXCEPT !.getPromise = "rejected", !.getReason = error]
  ELSE SettleGet(StartEntityHandler(en, error, log))

\* The callback EntityFetcher.watch hands to the EventFetcher's watch.
EntityWatchCallback(en, error, log) == StartEntityHandler(en, error, log)

\* The entity handleEvent of src/lib/web3EventService.ts: with an error (the
\* log is then the empty array the event handler made of it) it goes through
\* the log and resolves to the entities array at once; without one it rejects
\* with the error it does not have. The callback gets the promise either way.
LibEntityHandleEvent(en, error, log) ==
  LET begun == [en EXCEPT !.started = TRUE, !.log = log,
                          !.cbCalled = TRUE, !.cbError = error]
  IN  IF error # NoError
      THEN [begun EXCEPT !.promiseOfEntities = "resolved"]
      ELSE [begun EXCEPT !.promiseOfEntities = "rejected", !.reason = error]

\* AwaitTransform pushing whatever the transform resolved to, undefined too.
AwaitTransform_PushesUndefined(en) ==
  LET r == transformEventCallback(en.log[en.next].args)
      noted == [en EXCEPT !.votableCalls = @ \o r.votableCalls,
                          !.domainCalls = @ \o r.domainCalls]
  IN  IF r.outcome = "throw"
      THEN [noted EXCEPT !.died = TRUE]
      ELSE LET pushed == [noted EXCEPT !.entities = Append(@, r.entity),
                                       !.next = @ + 1]
           IN  IF pushed.next > Len(pushed.log)
               THEN SettleGet([pushed EXCEPT !.promiseOfEntities = "resolved"])
               ELSE pushed

\* One turn of the entity handleEvent's loop: the awaited transform of the
\* next event comes back. An entity is pushed, undefined is skipped; a throw
\* or rejection ends the async executor, which settles nothing. After the
\* last event the promise of entities resolves.
AwaitTransform(en) ==
  LET r == transformEventCallback(en.log[en.next].args)
      noted == [en EXCEPT !.votableCalls = @ \o r.votableCalls,
                          !.domainCalls = @ \o r.domainCalls]
  IN  IF r.outcome = "throw"
      THEN [noted EXCEPT !.died = TRUE]
      ELSE LET pushed == [noted EXCEPT
                            !.entities = IF r.outcome = "entity"
                                         THEN Append(@, r.entity) ELSE @,
                            !.next = @ + 1]
           IN  IF pushed.next > Len(pushed.log)
               THEN SettleGet([pushed EXCEPT !.promiseOfEntities = "resolved"])
               ELSE pushed

\* Whether the entity handleEvent of a call is suspended at an await.
Awaiting(en) == en.started /\ en.promiseOfEntities = "pending" /\ ~en.died

\* ------------------------------------- ProposalService.getProposalEvents
\* ------------------------------------------------------ argument filters
\* An argFilter is an object with some of the event's argument names as keys,
\* or undefined when the caller passed none.
FilterKeys == {"_avatar", "_proposalId"}
FilterValues == {"a1", "a2"}
Absent == "absent"
FilterOf(props) == [defined |-> TRUE, props |-> props]
EmptyFilter == FilterOf([k \in FilterKeys |-> Absent])
UndefinedFilter == [defined |-> FALSE, props |-> [k \in FilterKeys |-> Absent]]
Filters == { FilterOf(props) : props \in [FilterKeys -> FilterValues \cup {Absent}] }
HasKey(filter, k) == filter.defined /\ filter.props[k] # Absent

TypeError == "TypeError: Cannot convert undefined or null to object"

\* Object.assign with the arguments exchanged: the target's values win.
ObjectAssign_TargetWins(target, source) ==
  [error |-> IF target.defined THEN NoError ELSE TypeError,
   value |-> IF ~target.defined THEN UndefinedFilter
             ELSE FilterOf([k \in FilterKeys |->
                    IF HasKey(target, k) THEN target.props[k] ELSE source.props[k]])]

\* Object.assign(target, source): throws on an undefined target, else copies
\* every key of the source over the target's and gives back the target.
ObjectAssign(target, source) ==
  [error |-> IF target.defined THEN NoError ELSE TypeError,
   value |-> IF ~target.defined THEN UndefinedFilter
             ELSE FilterOf([k \in FilterKeys |->
                    IF HasKey(source, k) THEN source.props[k] ELSE target.props[k]])]

\* The object given as target to Object.assign(target, source) when the call
\* is over: Object.assign writes the source's keys to the target itself and
\* returns it, so the caller's object and the result are one object.
AssignedTarget(target, source) == ObjectAssign(target, source).value

\* The function createEventFetcherFactory returns, called with an argFilter
\* and a defined filterObject: the contract's event is created with the
\* argFilter merged with the factory's base filter.
EventFetcherFactory(filter, base) ==
  LET merged == ObjectAssign(filter, base)
  IN  [error |-> merged.error, event |-> filter, source |-> merged.value,
       object |-> AssignedTarget(filter, base)]

\* The function createEntityFetcherFactory returns: it calls the
\* EventFetcherFactory with the argFilter merged with its own base filter.
EntityFetcherFactory(filter, entityBase, eventBase) ==
  LET merged == ObjectAssign(filter, entityBase)
  IN  IF merged.error # NoError
      THEN [error |-> merged.error, event |-> UndefinedFilter, source |-> UndefinedFilter,
            object |-> filter]
      ELSE EventFetcherFactory(AssignedTarget(filter, entityBase), eventBase)

\* The factory of the caller's layer.
FetcherFactory(filter) ==
  IF layer = "entities"
  THEN EntityFetcherFactory(filter, entityBaseArgFilter, eventBaseArgFilter)
  ELSE EventFetcherFactory(filter, eventBaseArgFilter)

\* The filters callers and wrappers write.
CallerFilters ==
  { f \in Filters : f.props["_proposalId"] \in {Absent, "a1"} }
BaseFilters ==
  { f \in Filters : f.props["_avatar"] \in {Absent, "a1"} /\ f.props["_proposalId"] = Absent }

Uncalled == [status |-> "uncalled", error |-> NoError]
Unpiped == [status |-> "unpiped", error |-> NoError]
Returned == [status |-> "returned", error |-> NoError]
Threw(error) == [status |-> "threw", error |-> error]

\* The argument checks of getProposalEvents, in the order they are made: the
\* error thrown, or none. The mutant leaves out the check of votableOnly.
CheckOptions_NoVotableCheck(hasTransform, hasFetcher, onlyVotable, service) ==
  IF ~hasTransform THEN "transformEventCallback must be supplied"
  ELSE IF ~hasFetcher THEN "proposalsEventFetcher must be supplied"
  ELSE NoError

CheckOptions(hasTransform, hasFetcher, onlyVotable, service) ==
  IF ~hasTransform THEN "transformEventCallback must be supplied"
  ELSE IF ~hasFetcher THEN "proposalsEventFetcher must be supplied"
  ELSE IF onlyVotable /\ ~service
       THEN "votingMachineService must be supplied when votableOnly is true"
  ELSE NoError

\* --------------------------------------------------------------- actions
\* The caller calls getProposalEvents with its options and, when that
\* returns, makes a fetcher from the factory it got.
getProposalEvents ==
  /\ factory.status = "uncalled"
  /\ \E hasTransform \in BOOLEAN, hasFetcher \in BOOLEAN :
       LET error == CheckOptions(hasTransform, hasFetcher, votableOnly, hasService)
       IN  IF error # NoError
           THEN /\ factory' = Threw(error)
                /\ UNCHANGED receivedEvents
           ELSE /\ factory' = Returned
                /\ receivedEvents' = createEventHandler(suppressDups)
  /\ UNCHANGED <<configVars, calls>>
  /\ UNCHANGED <<filterVars, otherVars, watching, busVars, topicVars, serviceVars>>

\* The source answers a get call (via = "get": a fresh call of get on the
\* fetcher) or fires the watch (via = "watch") with delivery d.
Answered(via, d, ev, idle) ==
  [via |-> via, raw |-> d,
   ev |-> [hookCalled |-> ev.hookCalled, hookError |-> ev.hookError,
           hookLog |-> ev.hookLog,
           cbCalled |-> ev.cbCalled, cbError |-> ev.cbError, cbLog |-> ev.cbLog,
           promise |-> ev.promise, value |-> ev.value, reason |-> ev.reason],
   en |-> IF layer = "entities" /\ ev.cbCalled
          THEN IF via = "get"
               THEN EntityGetCallback(idle, ev.cbError, ev.cbLog.items)
               ELSE EntityWatchCallback(idle, ev.cbError, ev.cbLog.items)
          ELSE idle,
   received |-> ev.received]

\* One answer of the source as the fetchers of src/lib/web3EventService.ts
\* see it; h is what the event handler made of it.
LibAnswered(via, d, h) ==
  [via |-> via, raw |-> d,
   ev |-> [hookCalled |-> h.hookCalled, hookError |-> h.hookError,
           hookLog |-> h.hookLog,
           cbCalled |-> TRUE, cbError |-> h.cbError, cbLog |-> h.cbLog,
           promise |-> "none", value |-> ArrayOf(<<>>), reason |-> NoError],
   en |-> LibEntityHandleEvent(EntityCall("none"), h.cbError, h.cbLog.items),
   received |-> h.received]

\* A handler that makes its Set anew each time it is called.
HandlerSet_PerCall == createEventHandler(suppressDups)

\* The Set the handler of a fetcher works on: `receivedEvents` is a local of
\* createEventHandler, made once, that the returned handler closes over; get
\* and watch of the fetcher call that one handler.
HandlerSet == receivedEvents

Answer(via, d) ==
  Answered(via, d,
           IF via = "get" THEN EventFetcherGet(d, HandlerSet)
                          ELSE EventFetcherWatch(d, HandlerSet),
           EntityCall(IF layer = "entities" /\ via = "get" THEN "pending" ELSE "none"))

\* The entries the source has handed over so far.
RECURSIVE EntriesIn(_)
EntriesIn(cs) ==
  IF cs = <<>> THEN 0 ELSE Len(Head(cs).raw.log.items) + EntriesIn(Tail(cs))

\* The log entries the source draws from: under an EntityFetcher, two entries
\* of different transactions and different proposals.
SourceEvents ==
  IF layer = "events" THEN Events
  ELSE { e \in Events : e.transactionHash = "h2" \/ e.logIndex = 1 }

\* The number of calls the source answers in this run.
CallBudget == IF pipeline = "plain" THEN MaxDeliveries ELSE MaxProposalCalls

\* The deliveries the source can still make.
NextDeliveries ==
  Deliveries(SourceEvents, MaxEntries - EntriesIn(calls) - EntriesIn(otherCalls))

\* One Set for all the fetchers of a factory.
OtherHandlerSet_Shared ==
  [defined |-> otherReceivedEvents.defined,
   set |-> otherReceivedEvents.set \cup receivedEvents.set]

\* The Set of the second fetcher's handler: the factory function calls
\* createEventHandler each time it makes a fetcher, so the Set is its own.
OtherHandlerSet == otherReceivedEvents

\* The source answers a get of the second fetcher or fires its watch.
SourceAnswersOther ==
  /\ factory.status = "returned"
  /\ layer = "events"
  /\ Len(calls) + Len(otherCalls) < CallBudget
  /\ \E via \in {"get", "watch"}, d \in NextDeliveries :
       LET c == Answered(via, d,
                         IF via = "get" THEN EventFetcherGet(d, OtherHandlerSet)
                                        ELSE EventFetcherWatch(d, OtherHandlerSet),
                         EntityCall("none"))
       IN  /\ otherCalls' = Append(otherCalls, [via |-> c.via, raw |-> c.raw,
                                                ev |-> c.ev, en |-> c.en])
           /\ otherReceivedEvents' = c.received
  /\ UNCHANGED <<configVars, filterVars, receivedEvents, factory, calls, watching>>
  /\ UNCHANGED <<busVars, topicVars, serviceVars>>

\* A caller calls the factory with its argFilter and a filterObject, making a
\* fetcher (without a callback, so nothing is watched yet).
fetcherFactory ==
  /\ factory.status = "uncalled"
  /\ pipeline \in {"plain", "piped"}
  /\ LET made == FetcherFactory(argFilter)
     IN  IF made.error # NoError
         THEN /\ factory' = Threw(made.error)
              /\ UNCHANGED <<eventArgFilter, sourceArgFilter, receivedEvents,
                             callerArgFilter>>
         ELSE /\ factory' = Returned
              /\ eventArgFilter' = made.event
              /\ sourceArgFilter' = made.source
              /\ callerArgFilter' = made.object
              /\ receivedEvents' = createEventHandler(suppressDups)
  /\ UNCHANGED <<configVars, argFilter, entityBaseArgFilter, eventBaseArgFilter, calls>>
  /\ UNCHANGED <<otherVars, watching, busVars, topicVars, serviceVars>>

\* pipeEntityFetcherFactory(entityFetcherFactory, transformEventCallback): it
\* calls the factory without arguments to get a fetcher, replaces that
\* fetcher's transformEventCallback property, and returns the factory it was
\* given.
pipeEntityFetcherFactory ==
  /\ factory.status = "unpiped"
  /\ pipeline = "piped"
  /\ LET fetcher == EntityFetcherFactory(UndefinedFilter, entityBaseArgFilter,
                                         eventBaseArgFilter)
     IN  factory' = IF fetcher.error # NoError THEN Threw(fetcher.error) ELSE Uncalled
  /\ UNCHANGED <<configVars, filterVars, receivedEvents, calls>>
  /\ UNCHANGED <<otherVars, watching, busVars, topicVars, serviceVars>>

SourceAnswersGet ==
  /\ factory.status = "returned"
  /\ Len(calls) + Len(otherCalls) < CallBudget
  /\ \E d \in NextDeliveries :
       LET c == Answer("get", d)
       IN  /\ calls' = Append(calls, [via |-> c.via, raw |-> c.raw, ev |-> c.ev, en |-> c.en])
           /\ receivedEvents' = c.received
  /\ UNCHANGED <<configVars, factory>>
  /\ UNCHANGED <<filterVars, otherVars, watching, busVars, topicVars, serviceVars>>

SourceFiresWatch ==
  /\ factory.status = "returned"
  /\ watching
  /\ Len(calls) + Len(otherCalls) < CallBudget
  /\ \E d \in NextDeliveries :
       LET c == Answer("watch", d)
       IN  /\ calls' = Append(calls, [via |-> c.via, raw |-> c.raw, ev |-> c.ev, en |-> c.en])
           /\ receivedEvents' = c.received
  /\ UNCHANGED <<configVars, factory>>
  /\ UNCHANGED <<filterVars, otherVars, watching, busVars, topicVars, serviceVars>>

\* The source answers a get or fires the watch of an EntityFetcher of
\* src/lib/web3EventService.ts: its EventFetcher hands every answer to the
\* event handler, whose callback is the entity handleEvent.
LibSourceAnswers ==
  /\ pipeline = "lib"
  /\ Len(calls) < CallBudget
  /\ \E via \in {"get", "watch"}, d \in NextDeliveries :
       LET c == LibAnswered(via, d, handleEvent(d.error, d.log, receivedEvents))
       IN  /\ calls' = Append(calls, [via |-> c.via, raw |-> c.raw, ev |-> c.ev, en |-> c.en])
           /\ receivedEvents' = c.received
  /\ UNCHANGED <<configVars, factory>>
  /\ UNCHANGED <<filterVars, otherVars, watching, busVars, topicVars, serviceVars>>

\* The caller calls watch(callback) on its fetcher: the handler is registered
\* with the contract's event.
watch ==
  /\ factory.status = "returned"
  /\ ~watching
  /\ watching' = TRUE
  /\ UNCHANGED <<configVars, filterVars, receivedEvents, factory, calls, otherVars>>
  /\ UNCHANGED <<busVars, topicVars, serviceVars>>

\* The caller calls stopWatching() on its fetcher, which calls
\* baseEvent.stopWatching().
stopWatching ==
  /\ factory.status = "returned"
  /\ watching
  /\ watching' = FALSE
  /\ UNCHANGED <<configVars, filterVars, receivedEvents, factory, calls, otherVars>>
  /\ UNCHANGED <<busVars, topicVars, serviceVars>>

\* An awaited transform completes in one of the calls in flight.
TransformCompletes ==
  /\ \E i \in 1..Len(calls) :
       /\ Awaiting(calls[i].en)
       /\ calls' = [calls EXCEPT ![i].en = AwaitTransform(@)]
  /\ UNCHANGED <<configVars, receivedEvents, factory>>
  /\ UNCHANGED <<filterVars, otherVars, watching, busVars, topicVars, serviceVars>>

\* ------------------------------------------------------------------ topics
\* A topic is a string, kept as the sequence of its characters; "." separates
\* the levels of a topic.
Star == <<"*">>

\* The `topics` argument of subscribe: one topic, or an array of topics.
TopicList(items) == [isArray |-> TRUE, items |-> items]
OneTopic(t) == [isArray |-> FALSE, items |-> <<t>>]

\* The position of the last "." of a topic, 0 when it has none.
LastDot(t) ==
  LET dots == { i \in 1..Len(t) : t[i] = "." }
  IN  IF dots = {} THEN 0 ELSE CHOOSE i \in dots : \A j \in dots : j <= i

\* The topic one level up.
Parent(t) == SubSeq(t, 1, LastDot(t) - 1)

\* A published topic addresses itself and every level above it.
RECURSIVE Addressed(_)
Addressed(t) == IF LastDot(t) = 0 THEN {t} ELSE {t} \cup Addressed(Parent(t))

\* One subscribed topic against a published topic; the mutant takes any
\* leading part of the published topic for a match.
TopicSpecifies_AnyPrefix(s, t) ==
  /\ s # <<>>
  /\ \/ s = Star
     \/ Len(s) <= Len(t) /\ SubSeq(t, 1, Len(s)) = s

TopicSpecifies(s, t) ==
  /\ s # <<>>
  /\ \/ s = Star
     \/ s \in Addressed(t)

\* PubSubEventService.isTopicSpecifiedBy(topics, topic).
isTopicSpecifiedBy(topics, topic) ==
  \E k \in 1..Len(topics.items) : TopicSpecifies(topics.items[k], topic)

\* The topics the wrappers publish under.
TopicStake == <<"t", ".", "G", ".", "s">>     \* txReceipts.GenesisProtocol.stake
TopicPropose == <<"t", ".", "C", ".", "p">>   \* txReceipts.ContributionReward.proposeContributionReward
TopicCreate == <<"t", ".", "V", ".", "c">>    \* txReceipts.VestingScheme.create
\* Topics of a caller's own publishes.
TopicInner == <<"i", ".", "a">>
TopicOuter == <<"o">>

\* ----------------------------------------------------- the pub/sub bus
NoTx == [name |-> "null", of |-> 0]
NoKey == 0
OptionValues == {"optionsA", "optionsB"}

\* TransactionReceiptsEventInfo
EventInfo(key, options, tx, txCount) ==
  [invocationKey |-> key, options |-> options, tx |-> tx, txCount |-> txCount]

\* A key made of the topic alone, as Symbol.for(topic) would give: two calls
\* with one topic get one key.
generateInvocationKey_ByTopic(topic) ==
  IF topic = TopicStake THEN 1 ELSE IF topic = TopicPropose THEN 2
  ELSE IF topic = TopicCreate THEN 3 ELSE 4

\* generateInvocationKey: Symbol(topic), a value no earlier call has returned.
generateInvocationKey(topic) == Len(invocations) + 1

\* PubSubEventService.subscribe: the new subscription goes last.
subscribe(topics, kind, superTopic, superPayload) ==
  Append(subs, [topics |-> topics, kind |-> kind, active |-> TRUE,
                superTopic |-> superTopic, superPayload |-> superPayload,
                since |-> Len(published), until |-> -1, inbox |-> <<>>])

\* publishTxEvent's payload: a copy carrying tx when a tx is given; the
\* mutant publishes the payload as it was handed in.
TxPayload_NoCopy(payload, tx) == payload

\* A publishTxEvent that counts the transactions still to come.
TxPayload_CountsDown(payload, tx) ==
  IF tx # NoTx THEN [payload EXCEPT !.tx = tx, !.txCount = @ - 1] ELSE payload

TxPayload(payload, tx) == IF tx # NoTx THEN [payload EXCEPT !.tx = tx] ELSE payload

\* The callback resendTxEvents subscribes skips kick-off envelopes; the mutant
\* re-publishes them too.
Resends_KickoffsToo(txEventInfo) == TRUE

Resends(txEventInfo) == txEventInfo.tx # NoTx

\* The bus while a publish runs: the subscriptions, the publishes made, and
\* whether the publish was cut short (nested deeper than MaxDepth, or more
\* publishes than MaxPublishes).
Bus == [subs |-> subs, published |-> published, overflow |-> FALSE, cut |-> FALSE]

\* PubSubEventService.publish(topic, payload): the publish is recorded and
\* every active subscription whose topics specify the topic is called, in
\* the order the subscriptions were made, before publish returns.
\* TransactionService.publishTxEvent(topic, payload, tx) publishes
\* TxPayload(payload, tx); the callback of resendTxEvents calls it again
\* from inside the delivery.
RECURSIVE publishTxEvent(_, _, _, _, _, _, _)
RECURSIVE DeliverFrom(_, _, _, _, _, _)
DeliverFrom(bus, k, topic, payload, pub, depth) ==
  IF bus.overflow \/ bus.cut \/ k > Len(bus.subs) THEN bus
  ELSE LET s == bus.subs[k]
           after ==
             IF ~(s.active /\ isTopicSpecifiedBy(s.topics, topic)) THEN bus
             ELSE IF s.kind = "user"
             THEN [bus EXCEPT !.subs[k].inbox =
                     Append(@, [topic |-> topic, payload |-> payload, pub |-> pub])]
             ELSE IF Resends(payload)
             THEN publishTxEvent(bus, s.superTopic, s.superPayload, payload.tx,
                                 k, 0, depth + 1)
             ELSE bus
       IN  DeliverFrom(after, k + 1, topic, payload, pub, depth)

publishTxEvent(bus, topic, payload, tx, by, inv, depth) ==
  IF depth > MaxDepth THEN [bus EXCEPT !.overflow = TRUE]
  ELSE IF Len(bus.published) >= MaxPublishes THEN [bus EXCEPT !.cut = TRUE]
  ELSE DeliverFrom([bus EXCEPT !.published =
                      Append(@, [topic |-> topic, payload |-> TxPayload(payload, tx),
                                 by |-> by, inv |-> inv])],
                   1, topic, TxPayload(payload, tx), Len(bus.published) + 1, depth)

\* The bus after a publish that was not cut short by MaxPublishes.
Published(bus) ==
  /\ ~bus.cut
  /\ subs' = bus.subs
  /\ published' = bus.published
  /\ overflow' = bus.overflow

\* The topics subscribed to, published under and re-sent in the runs checked.
SubscribedTopics ==
  { OneTopic(<<"i">>), TopicList(<<TopicOuter, <<"x">>>>) }
ResentTopics == { OneTopic(<<"i">>), TopicList(<<TopicInner, TopicOuter>>) }
DirectTopics == { TopicInner }
TxCounts == 1..2

Running == ~overflow

\* The calls made so far: subscriptions made and ended, kick-offs asked for
\* and transactions published.
RECURSIVE TxsPublished(_)
TxsPublished(invs) ==
  IF invs = <<>> THEN 0 ELSE Len(Head(invs).txs) + TxsPublished(Tail(invs))

BusCalls ==
  Len(subs) + Cardinality({ k \in 1..Len(subs) : ~subs[k].active })
    + Len(invocations) + TxsPublished(invocations)

\* A caller subscribes a callback of its own, which keeps what it is handed.
Subscribe ==
  /\ Running
  /\ BusCalls < MaxBusCalls
  /\ Len(subs) < MaxSubscriptions
  /\ \E topics \in SubscribedTopics :
       subs' = subscribe(topics, "user", <<>>, EventInfo(NoKey, "optionsA", NoTx, 0))
  /\ UNCHANGED <<published, overflow, invocations>>
  /\ UNCHANGED <<fetcherVars, topicVars, serviceVars>>

\* TransactionService.resendTxEvents(topics, superTopic, superPayload), with
\* the payload an earlier publishKickoffEvent returned.
resendTxEvents ==
  /\ Running
  /\ BusCalls < MaxBusCalls
  /\ Len(subs) < MaxSubscriptions
  /\ \E topics \in ResentTopics, i \in 1..Len(invocations) :
       /\ invocations[i].payload.invocationKey # NoKey
       /\ subs' = subscribe(topics, "resend", TopicOuter, invocations[i].payload)
  /\ UNCHANGED <<published, overflow, invocations>>
  /\ UNCHANGED <<fetcherVars, topicVars, serviceVars>>

\* IEventSubscription.unsubscribe()
unsubscribe ==
  /\ Running
  /\ BusCalls < MaxBusCalls
  /\ \E k \in 1..Len(subs) :
       /\ subs[k].active
       /\ subs' = [subs EXCEPT ![k].active = FALSE, ![k].until = Len(published)]
  /\ UNCHANGED <<published, overflow, invocations>>
  /\ UNCHANGED <<fetcherVars, topicVars, serviceVars>>

\* One function invocation publishing through TransactionService.
Invocation(fn, topic, payload, pc, suppressed) ==
  [fn |-> fn, topic |-> topic, payload |-> payload, pc |-> pc,
   suppressed |-> suppressed, txs |-> <<>>]

\* TransactionService.publishKickoffEvent(topic, options, txCount,
\* suppressKickOff), called by a function that then publishes its
\* transactions itself.
publishKickoffEvent ==
  /\ Running
  /\ BusCalls < MaxBusCalls
  /\ Len(invocations) < MaxInvocations
  /\ \E topic \in DirectTopics, options \in OptionValues, txCount \in TxCounts,
        suppressKickOff \in BOOLEAN :
       LET payload == EventInfo(generateInvocationKey(topic), options, NoTx, txCount)
       IN  /\ invocations' = Append(invocations,
                               Invocation("direct", topic, payload, "open", suppressKickOff))
           /\ IF ~suppressKickOff
              THEN Published(publishTxEvent(Bus, topic, payload, NoTx, 0,
                                            Len(invocations) + 1, 1))
              ELSE UNCHANGED <<subs, published, overflow>>
  /\ UNCHANGED <<fetcherVars, topicVars, serviceVars>>

\* The envelope the caller of publishTxEvent(topic, payload, tx) holds when
\* the call is over. The mutant assigns tx to the caller's object,
\* Object.assign(payload, { tx }); the code assigns to a fresh {}.
PayloadAfterPublish_InPlace(payload, tx) == [payload EXCEPT !.tx = tx]

PayloadAfterPublish(payload, tx) == payload

\* The transaction a publish reports: a receipt of its own.
NewTx(name) == [name |-> name, of |-> Len(published) + 1]

\* TransactionService.publishTxEvent(topic, payload, tx) with the payload
\* publishKickoffEvent returned.
publishTx ==
  /\ Running
  /\ BusCalls < MaxBusCalls
  /\ \E i \in 1..Len(invocations) :
       LET tx == NewTx("tx") IN
       /\ invocations[i].fn = "direct"
       /\ Published(publishTxEvent(Bus, invocations[i].topic, invocations[i].payload,
                                    tx, 0, i, 1))
       /\ invocations' = [invocations EXCEPT
                            ![i].txs = Append(@, tx),
                            ![i].payload = PayloadAfterPublish(@, tx)]
  /\ UNCHANGED <<fetcherVars, topicVars, serviceVars>>

\* ------------------------------------------------- the wrappers' invocations
WrapperTopic(fn) ==
  CASE fn = "stake" -> TopicStake
    [] fn = "proposeContributionReward" -> TopicPropose
    [] fn = "create" -> TopicCreate

WrapperFns == {"stake", "proposeContributionReward", "create"}

\* The txCount the wrappers announce; the mutant forgets the approval.
KickoffCount_One(autoApproveTransfer) == 1

KickoffCount(autoApproveTransfer) == 1 + (IF autoApproveTransfer THEN 1 ELSE 0)

\* A wrapper function is called and runs up to its first transaction: its
\* argument checks throw, or it publishes the kick-off and goes on to the
\* approval (when configured) or to the main transaction.
Invoke ==
  /\ Running
  /\ Len(invocations) < MaxInvocations
  /\ \E fn \in WrapperFns, options \in OptionValues, valid \in BOOLEAN,
        autoApproveTransfer \in BOOLEAN :
       IF ~valid
       THEN /\ invocations' = Append(invocations,
                                Invocation(fn, WrapperTopic(fn),
                                           EventInfo(NoKey, options, NoTx, 0), "threw", FALSE))
            /\ UNCHANGED <<subs, published, overflow>>
       ELSE LET payload == EventInfo(generateInvocationKey(WrapperTopic(fn)), options,
                                     NoTx, KickoffCount(autoApproveTransfer))
            IN  /\ invocations' = Append(invocations,
                                    Invocation(fn, WrapperTopic(fn), payload,
                                               IF autoApproveTransfer THEN "approve" ELSE "main",
                                               FALSE))
                /\ Published(publishTxEvent(Bus, WrapperTopic(fn), payload, NoTx, 0,
                                             Len(invocations) + 1, 1))
  /\ UNCHANGED <<fetcherVars, topicVars, serviceVars>>

\* The transaction an invocation awaits is mined: its receipt is published.
TxCompletes ==
  /\ Running
  /\ \E i \in 1..Len(invocations) :
       LET inv == invocations[i]
           tx == NewTx(inv.pc)
       IN  /\ inv.pc \in {"approve", "main"}
           /\ Published(publishTxEvent(Bus, inv.topic, inv.payload, tx, 0, i, 1))
           /\ invocations' = [invocations EXCEPT
                                ![i].txs = Append(@, tx),
                                ![i].payload = PayloadAfterPublish(@, tx),
                                ![i].pc = IF inv.pc = "approve" THEN "main" ELSE "returned"]
  /\ UNCHANGED <<fetcherVars, topicVars, serviceVars>>

\* The transaction an invocation awaits fails: the invocation rejects.
TxFails ==
  /\ Running
  /\ \E i \in 1..Len(invocations) :
       /\ invocations[i].pc \in {"approve", "main"}
       /\ invocations' = [invocations EXCEPT ![i].pc = "threw"]
  /\ UNCHANGED <<subs, published, overflow>>
  /\ UNCHANGED <<fetcherVars, topicVars, serviceVars>>

\* ------------------------------------------- the topic-matching check
TopicChars == {"a", "."}
RECURSIVE StringsUpTo(_)
StringsUpTo(n) ==
  IF n = 0 THEN {<<>>}
  ELSE LET shorter == StringsUpTo(n - 1)
       IN  shorter \cup { Append(s, c) : s \in shorter, c \in TopicChars }
TopicStrings == StringsUpTo(MaxTopicLen) \cup {Star}
RECURSIVE ListsUpTo(_)
ListsUpTo(n) ==
  IF n = 0 THEN {<<>>}
  ELSE LET shorter == ListsUpTo(n - 1)
       IN  shorter \cup { Append(l, s) : l \in shorter, s \in TopicStrings }
TopicArguments ==
  { OneTopic(s) : s \in TopicStrings } \cup { TopicList(l) : l \in ListsUpTo(MaxTopics) }

\* A caller asks whether `topics` specify `topic`.
CallIsTopicSpecifiedBy ==
  /\ topicMatched = "none"
  /\ topicMatched' = IF isTopicSpecifiedBy(topicArgs.topics, topicArgs.topic)
                     THEN "true" ELSE "false"
  /\ UNCHANGED topicArgs
  /\ UNCHANGED <<fetcherVars, busVars, serviceVars>>

\* ------------------------------------------------ voting machine services
\* JavaScript values the voting services are handed: strings (hashes and
\* addresses), numbers, and undefined for a missing argument.
Str(s) == [type |-> "string", s |-> s, n |-> 0]
Num(n) == [type |-> "number", s |-> "", n |-> n]
Undefined == [type |-> "undefined", s |-> "", n |-> 0]
\* A function value, such as the `execute` given to propose.
Function(name) == [type |-> "function", s |-> name, n |-> 0]
\* A number that is not an integer carries its text in s and its floor in n,
\* so that `< 0` on n is `< 0` on the number.
Fraction(text, floor) == [type |-> "number", s |-> text, n |-> floor]
\* NaN is a number, `!NaN` is true and `NaN < 0` is false: as for 0.
NaN == [type |-> "number", s |-> "NaN", n |-> 0]

\* `!value` of JavaScript.
Falsy(value) ==
  \/ value.type = "undefined"
  \/ value.type = "string" /\ value.s = ""
  \/ value.type = "number" /\ value.n = 0

\* What a call of a service method comes to: the contract method it calls,
\* with the arguments, or the error it throws before calling the contract.
NotCalled == [kind |-> "none", fn |-> "", args |-> <<>>, error |-> ""]
ContractCall(fn, args) == [kind |-> "call", fn |-> fn, args |-> args, error |-> ""]
Throws(error) == [kind |-> "error", fn |-> "", args |-> <<>>, error |-> error]

\* The argument at a position of a call, undefined when the call has fewer.
Arg(args, i) == IF i \in 1..Len(args) THEN args[i] ELSE Undefined

\* VotingMachineService.validateVote: TRUE when it throws.
validateVote(vote) == vote.type # "number" \/ vote.n < 0

VoteError == "vote must be a number greater than or equal to zero"
ProposalIdError == "proposalId is not defined"
VoterError == "voterAddress is not defined"

\* The methods of VotingMachineService taking a vote after the proposal id.
VoteMethods == {"ownerVote", "vote", "voteWithSpecifiedAmounts", "voteStatus"}
\* The methods taking the proposal id alone.
ProposalMethods == {"cancelProposal", "cancelVote", "getNumberOfChoices", "isVotable"}
VotingMethods == VoteMethods \cup ProposalMethods

ParametersError == "proposalParameters is not defined"
ExecuteError == "execute is not defined"
NumOfChoicesError == "numOfChoices must be a number"

\* VotingMachineService.propose(numOfChoices, proposalParameters,
\* avatarAddress, execute).
propose(args) ==
  IF Falsy(Arg(args, 3)) THEN Throws("avatar is not defined")
  ELSE IF Falsy(Arg(args, 2)) THEN Throws(ParametersError)
  ELSE IF Falsy(Arg(args, 4)) THEN Throws(ExecuteError)
  ELSE IF Arg(args, 1).type # "number" THEN Throws(NumOfChoicesError)
  ELSE ContractCall("propose", <<Arg(args, 1), Arg(args, 2), Arg(args, 3), Arg(args, 4)>>)

\* The methods with the test of the proposal id left out.
VotingMachineService_NoIdCheck(method, args) ==
  IF method = "propose" THEN propose(args)
  ELSE IF method \in VoteMethods /\ validateVote(Arg(args, 2)) THEN Throws(VoteError)
  ELSE IF method \in VoteMethods THEN ContractCall(method, <<Arg(args, 1), Arg(args, 2)>>)
  ELSE ContractCall(method, <<Arg(args, 1)>>)

\* A method of VotingMachineService called with the arguments `args`, by
\* position: the proposal id first.
VotingMachineService(method, args) ==
  LET proposalId == Arg(args, 1)
      vote == Arg(args, 2)
      third == Arg(args, 3)
  IN  IF method = "propose" THEN propose(args)
      ELSE IF Falsy(proposalId) THEN Throws(ProposalIdError)
      ELSE IF method \in VoteMethods /\ validateVote(vote) THEN Throws(VoteError)
      ELSE IF method = "ownerVote" /\ Falsy(third) THEN Throws(VoterError)
      ELSE IF method = "ownerVote" THEN ContractCall(method, <<proposalId, vote, third>>)
      ELSE IF method = "voteWithSpecifiedAmounts"
           THEN ContractCall(method, <<proposalId, vote, third, Num(0)>>)
      ELSE IF method \in VoteMethods THEN ContractCall(method, <<proposalId, vote>>)
      ELSE ContractCall(method, <<proposalId>>)

\* A method of the ProposalVotingMachineService bound to `proposalId`, called
\* with `args`: it hands its own arguments to the method of the superclass and
\* the proposal id after them.
ProposalVotingMachineService(proposalId, method, args) ==
  IF method \in {"vote", "voteStatus"}
  THEN VotingMachineService(method, <<Arg(args, 1), proposalId>>)
  ELSE IF method \in {"ownerVote", "voteWithSpecifiedAmounts"}
  THEN VotingMachineService(method, <<Arg(args, 1), Arg(args, 2), proposalId>>)
  ELSE VotingMachineService(method, <<proposalId>>)

\* The values callers pass.
BoundProposals == {Str("p1"), Str("p2")}
Votes == {Num(0 - 1), Num(0), Num(1), Num(2)}
Voters == {Str("voter"), Str("")}
Reputations == {Num(0), Num(5)}

\* The arguments a caller gives a method of the proposal-scoped service.
VotingArguments(method) ==
  IF method \in {"vote", "voteStatus"} THEN { <<c>> : c \in Votes }
  ELSE IF method = "ownerVote" THEN { <<c, v>> : c \in Votes, v \in Voters }
  ELSE IF method = "voteWithSpecifiedAmounts"
       THEN { <<c, r>> : c \in Votes, r \in Reputations }
  ELSE { <<>> }

VotingCalls ==
  { [service |-> "proposal", proposalId |-> p, method |-> m, args |-> a] :
      p \in BoundProposals, m \in ProposalMethods, a \in {<<>>} } \cup
  UNION { { [service |-> "proposal", proposalId |-> p, method |-> m, args |-> a] :
              a \in VotingArguments(m) } :
            p \in BoundProposals, m \in VoteMethods }

\* The values callers pass a VotingMachineService.
ProposalIdsGiven == {Str("p1"), Undefined}
VotesGiven == Votes \cup {Fraction("1.5", 1), NaN, Str("1"), Undefined}

\* The calls of VotingMachineService itself, the arguments by position.
MachineCalls ==
  { [service |-> "machine", proposalId |-> Undefined, method |-> m, args |-> <<p>>] :
      p \in ProposalIdsGiven, m \in ProposalMethods } \cup
  { [service |-> "machine", proposalId |-> Undefined, method |-> m, args |-> <<p, c>>] :
      p \in ProposalIdsGiven, c \in VotesGiven, m \in {"vote", "voteStatus"} } \cup
  { [service |-> "machine", proposalId |-> Undefined, method |-> "ownerVote",
     args |-> <<p, c, v>>] : p \in ProposalIdsGiven, c \in VotesGiven, v \in Voters } \cup
  { [service |-> "machine", proposalId |-> Undefined,
     method |-> "voteWithSpecifiedAmounts", args |-> <<p, c, r>>] :
      p \in ProposalIdsGiven, c \in VotesGiven, r \in Reputations } \cup
  { [service |-> "machine", proposalId |-> Undefined, method |-> "propose",
     args |-> <<n, h, a, x>>] :
      n \in {Num(2), Str("2")}, h \in {Str("h"), Undefined},
      a \in {Str("a1"), Undefined}, x \in {Function("execute"), Undefined} }

\* A caller calls a method of a VotingMachineService.
CallVotingMachineService ==
  /\ votingCall.service = "machine"
  /\ votingOutcome = NotCalled
  /\ votingOutcome' = VotingMachineService(votingCall.method, votingCall.args)
  /\ UNCHANGED votingCall
  /\ UNCHANGED <<fetcherVars, busVars, topicVars, proposalVars>>

\* A caller calls a method of a ProposalVotingMachineService.
CallProposalVotingMachineService ==
  /\ votingCall.service = "proposal"
  /\ votingOutcome = NotCalled
  /\ votingOutcome' = ProposalVotingMachineService(votingCall.proposalId,
                                                   votingCall.method, votingCall.args)
  /\ UNCHANGED votingCall
  /\ UNCHANGED <<fetcherVars, busVars, topicVars, proposalVars>>

\* ------------------------- ProposalService of src/lib/proposalService.ts
\* The outcome of a call of getProposals or watchProposals: the state of the
\* promise (or of the watch), the proposals the promise resolved to, the
\* proposals handed to perProposalCallback, the errors handed to the caller.
NotAsked ==
  [status |-> "uncalled", proposals |-> <<>>, reason |-> NoError,
   reported |-> <<>>, fetched |-> <<>>, surfaced |-> <<>>, running |-> <<>>]

\* { _avatar: options.avatarAddress } when the avatar is set, else {}.
AvatarFilter(avatarAddress) ==
  FilterOf([k \in FilterKeys |-> IF k = "_avatar" THEN avatarAddress ELSE Absent])

\* getProposals: Object.assign({}, <avatar filter>, options.eventArgsFilter).
GetProposalsArgsFilter(options) ==
  ObjectAssign(ObjectAssign(EmptyFilter, AvatarFilter(options.avatarAddress)).value,
               options.eventArgsFilter).value

\* watchProposals: options = Object.assign({}, defaults, options), so the
\* default eventArgsFilter is used only when the caller's options have none.
WatchProposalsArgsFilter(options) ==
  IF options.eventArgsFilter.defined THEN options.eventArgsFilter
  ELSE AvatarFilter(options.avatarAddress)

\* The proposal _getProposalFromEvent builds from an event's args.
ProposalOf(event, options) ==
  [proposalId |-> event.args._proposalId, avatarAddress |-> options.avatarAddress]

\* What perProposalCallback resolves to: whether to stop.
Stops(perProposalCallback, proposal) ==
  perProposalCallback = "stopsAtP2" /\ proposal.proposalId = "p2"

\* Whether proposalMaker.getProposal / convertToProposal rejects for an event.
LookupFails(options, event) ==
  options.getProposal = "rejectsAtP2" /\ event.args._proposalId = "p2"

\* Whether perProposalCallback throws or rejects for a proposal.
CallbackFails(perProposalCallback, proposal) ==
  perProposalCallback = "throwsAtP2" /\ proposal.proposalId = "p2"

\* A walk that goes on with the next event when the callback asked to stop.
WalkOne_GoesOnAfterStop(event, options, rest) ==
  IF Stops(options.perProposalCallback, ProposalOf(event, options))
  THEN [rest EXCEPT !.reported = <<ProposalOf(event, options)>> \o @,
                    !.fetched = <<event.args._proposalId>> \o @,
                    !.stopped = TRUE]
  ELSE [rest EXCEPT !.kept = <<ProposalOf(event, options)>> \o @,
                    !.reported = <<ProposalOf(event, options)>> \o @,
                    !.fetched = <<event.args._proposalId>> \o @]

\* The walk of one event, when the events after it come to `rest`: the
\* proposal is looked up, handed to perProposalCallback when there is one,
\* and pushed unless the callback asked to stop; an await that rejects ends
\* the walk.
WalkOne(event, options, rest) ==
  IF LookupFails(options, event)
  THEN [kept |-> <<>>, reported |-> <<>>, fetched |-> <<event.args._proposalId>>,
        stopped |-> FALSE, threw |-> TRUE]
  ELSE IF options.perProposalCallback = "none"
  THEN [rest EXCEPT !.kept = <<ProposalOf(event, options)>> \o @,
                    !.fetched = <<event.args._proposalId>> \o @]
  ELSE IF CallbackFails(options.perProposalCallback, ProposalOf(event, options))
  THEN [kept |-> <<>>, reported |-> <<ProposalOf(event, options)>>,
        fetched |-> <<event.args._proposalId>>, stopped |-> FALSE, threw |-> TRUE]
  ELSE IF Stops(options.perProposalCallback, ProposalOf(event, options))
  THEN [kept |-> <<>>, reported |-> <<ProposalOf(event, options)>>,
        fetched |-> <<event.args._proposalId>>, stopped |-> TRUE, threw |-> FALSE]
  ELSE [rest EXCEPT !.kept = <<ProposalOf(event, options)>> \o @,
                    !.reported = <<ProposalOf(event, options)>> \o @,
                    !.fetched = <<event.args._proposalId>> \o @]

RECURSIVE WalkLog(_, _)
\* The loop over the log in both operations, run to its end: `fetched` are
\* the proposals looked up, `reported` those handed to perProposalCallback,
\* `kept` those the loop got past; `stopped` when the callback asked to stop,
\* `threw` when an await rejected.
WalkLog(items, options) ==
  IF items = <<>>
  THEN [kept |-> <<>>, reported |-> <<>>, fetched |-> <<>>,
        stopped |-> FALSE, threw |-> FALSE]
  ELSE WalkOne(Head(items), options, WalkLog(Tail(items), options))

\* A getProposals callback that loses the last proposal of the batch.
GetProposalsCallback_DropsLast(outcome, options, err, items) ==
  IF err # NoError
  THEN [outcome EXCEPT !.status = "rejected", !.reason = err,
                       !.surfaced = Append(@, err)]
  ELSE [outcome EXCEPT !.status = "resolved",
                       !.proposals = SubSeq(WalkLog(items, options).kept, 1,
                                            Len(WalkLog(items, options).kept) - 1),
                       !.reported = WalkLog(items, options).reported]

\* The callback getProposals gives eventFetcher.get: reject on an error, else
\* walk the log and resolve to the proposals pushed. The callback is async
\* and nothing awaits or catches it: when an await in the walk rejects,
\* neither resolve nor reject is called and the promise stays pending.
GetProposalsCallback(outcome, options, err, items) ==
  IF err # NoError
  THEN [outcome EXCEPT !.status = "rejected", !.reason = err,
                       !.surfaced = Append(@, err)]
  ELSE IF WalkLog(items, options).threw
  THEN [outcome EXCEPT !.reported = WalkLog(items, options).reported,
                       !.fetched = WalkLog(items, options).fetched]
  ELSE [outcome EXCEPT !.status = "resolved",
                       !.proposals = WalkLog(items, options).kept,
                       !.reported = WalkLog(items, options).reported,
                       !.fetched = WalkLog(items, options).fetched]

\* The callback watchProposals gives eventFetcher.watch: it walks the log and
\* does nothing with err.
WatchProposalsCallback(outcome, options, err, items) ==
  [outcome EXCEPT !.reported = @ \o WalkLog(items, options).reported,
                  !.fetched = @ \o WalkLog(items, options).fetched]

\* One answer of the source as the EventFetcher under the ProposalService
\* records it; h is what the event handler made of it.
ProposalsAnswered(via, d, h) ==
  [via |-> via, raw |-> d,
   ev |-> [hookCalled |-> h.hookCalled, hookError |-> h.hookError,
           hookLog |-> h.hookLog,
           cbCalled |-> TRUE, cbError |-> h.cbError, cbLog |-> h.cbLog,
           promise |-> "none", value |-> ArrayOf(<<>>), reason |-> NoError],
   en |-> EntityCall("none")]

\* The caller calls getProposals(options): the fetcher is made with the
\* merged argument filter and get is called on it.
getProposals ==
  /\ psOptions.operation = "getProposals"
  /\ psOutcome.status = "uncalled"
  /\ eventArgFilter' = GetProposalsArgsFilter(psOptions)
  /\ psOutcome' = [psOutcome EXCEPT !.status = "pending"]
  /\ UNCHANGED <<configVars, argFilter, entityBaseArgFilter, eventBaseArgFilter,
                 callerArgFilter,
                 sourceArgFilter, receivedEvents, factory, calls, otherVars, watching>>
  /\ UNCHANGED <<psOptions, votingMachine, busVars, topicVars, votingVars>>

\* The caller calls watchProposals(options): the fetcher is made and watch
\* is called on it.
watchProposals ==
  /\ psOptions.operation = "watchProposals"
  /\ psOutcome.status = "uncalled"
  /\ eventArgFilter' = WatchProposalsArgsFilter(psOptions)
  /\ psOutcome' = [psOutcome EXCEPT !.status = "watching"]
  /\ watching' = TRUE
  /\ UNCHANGED <<configVars, argFilter, entityBaseArgFilter, eventBaseArgFilter,
                 callerArgFilter,
                 sourceArgFilter, receivedEvents, factory, calls, otherVars>>
  /\ UNCHANGED <<psOptions, votingMachine, busVars, topicVars, votingVars>>

\* The source answers the get of getProposals.
ProposalsGetAnswered ==
  /\ psOutcome.status = "pending"
  /\ calls = <<>>
  /\ \E d \in NextDeliveries :
       /\ calls' = Append(calls, ProposalsAnswered("get", d,
                             handleEvent(d.error, d.log, receivedEvents)))
       /\ receivedEvents' = handleEvent(d.error, d.log, receivedEvents).received
       /\ psOutcome' = GetProposalsCallback(psOutcome, psOptions,
                          handleEvent(d.error, d.log, receivedEvents).cbError,
                          handleEvent(d.error, d.log, receivedEvents).cbLog.items)
  /\ UNCHANGED <<configVars, filterVars, factory, otherVars, watching>>
  /\ UNCHANGED <<psOptions, votingMachine, busVars, topicVars, votingVars>>

\* The source fires the watch of watchProposals; the watch is stopped when
\* perProposalCallback asks for it.
ProposalsWatchFired ==
  /\ psOutcome.status = "watching"
  /\ watching
  /\ Len(calls) < CallBudget
  /\ \E d \in NextDeliveries :
       /\ calls' = Append(calls, ProposalsAnswered("watch", d,
                             handleEvent(d.error, d.log, receivedEvents)))
       /\ receivedEvents' = handleEvent(d.error, d.log, receivedEvents).received
       /\ psOutcome' = WatchProposalsCallback(psOutcome, psOptions,
                          handleEvent(d.error, d.log, receivedEvents).cbError,
                          handleEvent(d.error, d.log, receivedEvents).cbLog.items)
       /\ watching' = ~WalkLog(handleEvent(d.error, d.log, receivedEvents).cbLog.items,
                               psOptions).stopped
  /\ UNCHANGED <<configVars, filterVars, factory, otherVars>>
  /\ UNCHANGED <<psOptions, votingMachine, busVars, topicVars, votingVars>>

\* The most firings of the watch of watchProposals.
MaxBatches == 2

\* The runs of the async callback of watchProposals, one per firing of the
\* watch: `items` are the events a run has still to handle, the first being
\* the one it is at; `phase` is the await it is suspended at. Nothing awaits
\* a run, so the watch can fire again while an earlier run is suspended.
RunningOf(items) == [items |-> items, phase |-> "lookup"]

RunEnded == [items |-> <<>>, phase |-> "lookup"]

\* The watch of watchProposals fires and a run of its callback starts on the
\* log: it reaches `await this._getProposalFromEvent(...)` of the first event.
WatchBatchArrives ==
  /\ psOutcome.status = "watching"
  /\ watching
  /\ Len(calls) < MaxBatches
  /\ \E d \in NextDeliveries :
       /\ calls' = Append(calls, ProposalsAnswered("watch", d,
                             handleEvent(d.error, d.log, receivedEvents)))
       /\ receivedEvents' = handleEvent(d.error, d.log, receivedEvents).received
       /\ psOutcome' = [psOutcome EXCEPT !.running = Append(@,
                          RunningOf(handleEvent(d.error, d.log, receivedEvents).cbLog.items))]
  /\ UNCHANGED <<configVars, filterVars, factory, otherVars, watching>>
  /\ UNCHANGED <<psOptions, votingMachine, busVars, topicVars, votingVars>>

\* The lookup a run awaits settles: a rejection ends the run; else the run
\* calls perProposalCallback with the proposal and awaits it, or, with no
\* callback, goes on to the next event.
ProposalLookedUp ==
  /\ \E b \in 1..Len(psOutcome.running) :
       /\ psOutcome.running[b].items # <<>>
       /\ psOutcome.running[b].phase = "lookup"
       /\ psOutcome' =
            [psOutcome EXCEPT
               !.fetched = Append(@, Head(psOutcome.running[b].items).args._proposalId),
               !.reported =
                  IF LookupFails(psOptions, Head(psOutcome.running[b].items))
                     \/ psOptions.perProposalCallback = "none"
                  THEN @
                  ELSE Append(@, ProposalOf(Head(psOutcome.running[b].items), psOptions)),
               !.running[b] =
                  IF LookupFails(psOptions, Head(psOutcome.running[b].items))
                  THEN RunEnded
                  ELSE IF psOptions.perProposalCallback = "none"
                  THEN RunningOf(Tail(@.items))
                  ELSE [@ EXCEPT !.phase = "callback"]]
  /\ UNCHANGED <<fetcherVars, watching>>
  /\ UNCHANGED <<psOptions, votingMachine, busVars, topicVars, votingVars>>

\* The perProposalCallback a run awaits settles: a rejection ends the run; on
\* true the run calls eventFetcher.stopWatching() and breaks out of its own
\* loop; else it goes on to the next event.
CallbackSettles ==
  /\ \E b \in 1..Len(psOutcome.running) :
       /\ psOutcome.running[b].phase = "callback"
       /\ psOutcome' =
            [psOutcome EXCEPT
               !.running[b] =
                  IF CallbackFails(psOptions.perProposalCallback,
                                   ProposalOf(Head(@.items), psOptions))
                     \/ Stops(psOptions.perProposalCallback,
                              ProposalOf(Head(@.items), psOptions))
                  THEN RunEnded
                  ELSE RunningOf(Tail(@.items))]
       /\ watching' =
            IF ~CallbackFails(psOptions.perProposalCallback,
                              ProposalOf(Head(psOutcome.running[b].items), psOptions))
               /\ Stops(psOptions.perProposalCallback,
                        ProposalOf(Head(psOutcome.running[b].items), psOptions))
            THEN FALSE ELSE watching
  /\ UNCHANGED <<configVars, filterVars, receivedEvents, factory, calls, otherVars>>
  /\ UNCHANGED <<psOptions, votingMachine, busVars, topicVars, votingVars>>

\* The options callers pass.
ProposalsOptions ==
  [operation : {"getProposals", "watchProposals"},
   avatarAddress : {Absent, "a1"},
   eventArgsFilter : {UndefinedFilter,
                      FilterOf([_avatar |-> Absent, _proposalId |-> "a1"]),
                      FilterOf([_avatar |-> "a2", _proposalId |-> Absent])},
   perProposalCallback : {"none", "continues", "stopsAtP2", "throwsAtP2"},
   getProposal : {"resolves", "rejectsAtP2"}]

\* ------------------------------------ ProposalService.getCurrentVoteStatus
\* The most choices a proposal has.
MaxChoices == 2

\* The totals the contract holds for a choice.
VoteTotals == {0, 5}

\* The voting machine contracts: a proposal has at least one choice, and
\* voteStatus answers for every choice up to the number of choices.
VotingMachines ==
  [numberOfChoices : 1..MaxChoices, abstainAllow : BOOLEAN,
   voteStatus : [0..MaxChoices -> VoteTotals]]

MachineIdle ==
  [numberOfChoices |-> 1, abstainAllow |-> TRUE, voteStatus |-> [c \in 0..MaxChoices |-> 0]]

AvatarError == "avatar is not defined"

\* getVotingMachineService(avatarAddress), then getNumberOfChoices on it.
FirstVotingCall(options) ==
  IF options.avatarAddress = Absent THEN Throws(AvatarError)
  ELSE VotingMachineService("getNumberOfChoices", <<options.proposalId>>)

\* The calls of voteStatus the loop makes, for choice 0 to numChoices - 1.
VoteStatusCalls(options, numChoices) ==
  [k \in 1..numChoices |->
     VotingMachineService("voteStatus", <<options.proposalId, Num(k - 1)>>)]

\* What getCurrentVoteStatus comes to once numChoices is settled: the array
\* of the totals, or the first error a call of voteStatus threw.
CollectVoteTotals(options, machine, numChoices) ==
  IF \E k \in 1..numChoices : VoteStatusCalls(options, numChoices)[k].kind = "error"
  THEN [status |-> "rejected", voteTotals |-> <<>>,
        reason |-> VoteStatusCalls(options, numChoices)[
                     CHOOSE k \in 1..numChoices :
                       /\ VoteStatusCalls(options, numChoices)[k].kind = "error"
                       /\ \A j \in 1..(k - 1) :
                            VoteStatusCalls(options, numChoices)[j].kind # "error"].error,
        contractCalls |-> <<>>]
  ELSE [status |-> "resolved",
        voteTotals |-> [k \in 1..numChoices |->
                         machine.voteStatus[VoteStatusCalls(options, numChoices)[k].args[2].n]],
        reason |-> "",
        contractCalls |-> <<FirstVotingCall(options), ContractCall("isAbstainAllow", <<>>)>>
                            \o VoteStatusCalls(options, numChoices)]

\* A getCurrentVoteStatus that leaves numChoices as the contract gave it.
getCurrentVoteStatus_NoAbstainSlot(options, machine) ==
  IF FirstVotingCall(options).kind = "error"
  THEN [status |-> "rejected", voteTotals |-> <<>>,
        reason |-> FirstVotingCall(options).error, contractCalls |-> <<>>]
  ELSE CollectVoteTotals(options, machine, machine.numberOfChoices)

\* ProposalService.getCurrentVoteStatus(options) against a voting machine:
\* numChoices is one more than the contract's when abstaining is not allowed.
getCurrentVoteStatus(options, machine) ==
  IF FirstVotingCall(options).kind = "error"
  THEN [status |-> "rejected", voteTotals |-> <<>>,
        reason |-> FirstVotingCall(options).error, contractCalls |-> <<>>]
  ELSE CollectVoteTotals(options, machine,
                         IF machine.abstainAllow THEN machine.numberOfChoices
                         ELSE machine.numberOfChoices + 1)

\* The caller calls getCurrentVoteStatus and the promise settles.
CallGetCurrentVoteStatus ==
  /\ psOptions.operation = "getCurrentVoteStatus"
  /\ psOutcome.status = "uncalled"
  /\ psOutcome' = getCurrentVoteStatus(psOptions, votingMachine)
  /\ UNCHANGED <<psOptions, votingMachine, fetcherVars, busVars, topicVars, votingVars>>

\* The AvatarProposalSpecifiers callers pass.
VoteStatusOptions ==
  [operation : {"getCurrentVoteStatus"}, avatarAddress : {Absent, "a1"},
   proposalId : {Str("p1"), Undefined}]

\* --------------------------------------------------------- specifications
vars == <<fetcherVars, busVars, topicVars, serviceVars>>

FetcherNext == SourceAnswersGet \/ SourceFiresWatch \/ TransformCompletes

\* No second fetcher in use.
OtherFetcherIdle ==
  /\ otherReceivedEvents = UndefinedSet
  /\ otherCalls = <<>>

\* Fetchers made with empty filters.
FiltersIdle ==
  /\ argFilter = EmptyFilter
  /\ entityBaseArgFilter = EmptyFilter
  /\ eventBaseArgFilter = EmptyFilter
  /\ eventArgFilter = EmptyFilter
  /\ sourceArgFilter = EmptyFilter
  /\ callerArgFilter = EmptyFilter

\* The parts of the library a run does not use stay as constructed.
FetcherIdle ==
  /\ layer = "events"
  /\ suppressDups = "false"
  /\ preProcessEvent = "none"
  /\ receivedEvents = createEventHandler(suppressDups)
  /\ pipeline = "plain"
  /\ votableOnly = FALSE
  /\ hasService = FALSE
  /\ isVotable = [p \in ProposalIds |-> "true"]
  /\ domainTransform = [p \in ProposalIds |-> "entity"]
  /\ secondTransform = [p \in ProposalIds |-> "entity"]
  /\ FiltersIdle /\ OtherFetcherIdle
  /\ factory = Returned
  /\ calls = <<>>
  /\ watching = TRUE

BusIdle ==
  /\ subs = <<>>
  /\ published = <<>>
  /\ overflow = FALSE
  /\ invocations = <<>>

TopicsIdle ==
  /\ topicArgs = [topics |-> OneTopic(<<>>), topic |-> <<>>]
  /\ topicMatched = "none"

ProposalServiceIdle ==
  /\ psOptions = [operation |-> "getProposals", avatarAddress |-> Absent,
                  eventArgsFilter |-> UndefinedFilter, perProposalCallback |-> "none",
                  getProposal |-> "resolves"]
  /\ psOutcome = NotAsked
  /\ votingMachine = MachineIdle

VotingIdle ==
  /\ votingCall = [service |-> "proposal", proposalId |-> Str("p1"),
                   method |-> "isVotable", args |-> <<>>]
  /\ votingOutcome = NotCalled

ServicesIdle == VotingIdle /\ ProposalServiceIdle

\* A caller using an EventFetcher directly.
InitEvents ==
  /\ layer = "events"
  /\ suppressDups \in {"true", "false", "undefined"}
  /\ preProcessEvent = "none"
  /\ receivedEvents = createEventHandler(suppressDups)
  /\ pipeline = "plain"
  /\ votableOnly = FALSE
  /\ hasService = FALSE
  /\ isVotable = [p \in ProposalIds |-> "true"]
  /\ domainTransform = [p \in ProposalIds |-> "entity"]
  /\ secondTransform = [p \in ProposalIds |-> "entity"]
  /\ FiltersIdle /\ OtherFetcherIdle
  /\ factory = Returned
  /\ calls = <<>>
  /\ watching = TRUE
  /\ BusIdle /\ TopicsIdle /\ ServicesIdle

\* A caller using an EventFetcher whose factory was given a preProcessEvent.
InitHooks ==
  /\ layer = "events"
  /\ suppressDups \in {"true", "false"}
  /\ preProcessEvent \in Hooks
  /\ receivedEvents = createEventHandler(suppressDups)
  /\ pipeline = "plain"
  /\ votableOnly = FALSE
  /\ hasService = FALSE
  /\ isVotable = [p \in ProposalIds |-> "true"]
  /\ domainTransform = [p \in ProposalIds |-> "entity"]
  /\ secondTransform = [p \in ProposalIds |-> "entity"]
  /\ FiltersIdle /\ OtherFetcherIdle
  /\ factory = Returned
  /\ calls = <<>>
  /\ watching = TRUE
  /\ BusIdle /\ TopicsIdle /\ ServicesIdle

\* A caller of watch and stopWatching on an EventFetcher.
InitWatch ==
  /\ layer = "events"
  /\ suppressDups \in {"true", "false"}
  /\ preProcessEvent = "none"
  /\ receivedEvents = createEventHandler(suppressDups)
  /\ pipeline = "plain"
  /\ votableOnly = FALSE
  /\ hasService = FALSE
  /\ isVotable = [p \in ProposalIds |-> "true"]
  /\ domainTransform = [p \in ProposalIds |-> "entity"]
  /\ secondTransform = [p \in ProposalIds |-> "entity"]
  /\ FiltersIdle /\ OtherFetcherIdle
  /\ factory = Returned
  /\ calls = <<>>
  /\ watching = FALSE
  /\ BusIdle /\ TopicsIdle /\ ServicesIdle

\* A caller using an EntityFetcher of src/lib/web3EventService.ts.
InitLibEntities ==
  /\ layer = "entities"
  /\ suppressDups \in {"true", "false"}
  /\ preProcessEvent = "none"
  /\ receivedEvents = createEventHandler(suppressDups)
  /\ pipeline = "lib"
  /\ votableOnly = FALSE
  /\ hasService = FALSE
  /\ isVotable = [p \in ProposalIds |-> "true"]
  /\ domainTransform \in [ProposalIds -> {"entity", "undefined"}]
  /\ secondTransform = [p \in ProposalIds |-> "entity"]
  /\ FiltersIdle /\ OtherFetcherIdle
  /\ factory = Returned
  /\ calls = <<>>
  /\ watching = TRUE
  /\ BusIdle /\ TopicsIdle /\ ServicesIdle

\* A caller about to call getProposals or watchProposals of a ProposalService.
InitProposalService ==
  /\ layer = "proposals"
  /\ suppressDups = "undefined"
  /\ preProcessEvent = "none"
  /\ receivedEvents = createEventHandler(suppressDups)
  /\ pipeline = "plain"
  /\ votableOnly = FALSE
  /\ hasService = FALSE
  /\ isVotable = [p \in ProposalIds |-> "true"]
  /\ domainTransform = [p \in ProposalIds |-> "entity"]
  /\ secondTransform = [p \in ProposalIds |-> "entity"]
  /\ FiltersIdle /\ OtherFetcherIdle
  /\ factory = Returned
  /\ calls = <<>>
  /\ watching = FALSE
  /\ BusIdle /\ TopicsIdle /\ VotingIdle
  /\ psOptions \in ProposalsOptions
  /\ psOutcome = NotAsked
  /\ votingMachine = MachineIdle

\* A caller holding two EventFetchers made by two calls of one factory.
InitTwoFetchers ==
  /\ layer = "events"
  /\ suppressDups \in {"true", "false"}
  /\ preProcessEvent = "none"
  /\ receivedEvents = createEventHandler(suppressDups)
  /\ pipeline = "plain"
  /\ votableOnly = FALSE
  /\ hasService = FALSE
  /\ isVotable = [p \in ProposalIds |-> "true"]
  /\ domainTransform = [p \in ProposalIds |-> "entity"]
  /\ secondTransform = [p \in ProposalIds |-> "entity"]
  /\ FiltersIdle
  /\ otherReceivedEvents = createEventHandler(suppressDups)
  /\ otherCalls = <<>>
  /\ factory = Returned
  /\ calls = <<>>
  /\ watching = TRUE
  /\ BusIdle /\ TopicsIdle /\ ServicesIdle

\* A caller using an EntityFetcher made by createEntityFetcherFactory with a
\* transform of its own.
InitEntities ==
  /\ layer = "entities"
  /\ suppressDups \in {"true", "false"}
  /\ preProcessEvent = "none"
  /\ receivedEvents = createEventHandler(suppressDups)
  /\ pipeline = "plain"
  /\ votableOnly = FALSE
  /\ hasService = FALSE
  /\ isVotable = [p \in ProposalIds |-> "true"]
  /\ domainTransform \in [ProposalIds -> TransformOutcomes]
  /\ secondTransform = [p \in ProposalIds |-> "entity"]
  /\ FiltersIdle /\ OtherFetcherIdle
  /\ factory = Returned
  /\ calls = <<>>
  /\ watching = TRUE
  /\ BusIdle /\ TopicsIdle /\ ServicesIdle

\* A caller about to call ProposalService.getProposalEvents and to use the
\* EntityFetcher of the factory it returns.
InitProposals ==
  /\ layer = "entities"
  /\ suppressDups = "true"
  /\ preProcessEvent = "none"
  /\ receivedEvents = UndefinedSet
  /\ pipeline \in {"part_006", "part_007"}
  /\ votableOnly \in BOOLEAN
  /\ hasService \in BOOLEAN
  /\ isVotable \in [ProposalIds -> VotableOutcomes]
  /\ domainTransform \in [ProposalIds -> {"entity", "undefined"}]
  /\ secondTransform = [p \in ProposalIds |-> "entity"]
  /\ FiltersIdle /\ OtherFetcherIdle
  /\ factory = Uncalled
  /\ calls = <<>>
  /\ watching = TRUE
  /\ BusIdle /\ TopicsIdle /\ ServicesIdle

\* A caller about to call a factory made by createEventFetcherFactory or
\* createEntityFetcherFactory, or to pipe an EntityFetcherFactory first.
InitFactories ==
  /\ layer \in {"events", "entities"}
  /\ suppressDups = "true"
  /\ preProcessEvent = "none"
  /\ receivedEvents = UndefinedSet
  /\ pipeline \in IF layer = "entities" THEN {"plain", "piped"} ELSE {"plain"}
  /\ votableOnly = FALSE
  /\ hasService = FALSE
  /\ isVotable = [p \in ProposalIds |-> "true"]
  /\ domainTransform \in
       IF pipeline = "piped" THEN [ProposalIds -> {"entity", "undefined"}]
       ELSE {[p \in ProposalIds |-> "entity"]}
  /\ secondTransform \in
       IF pipeline = "piped" THEN [ProposalIds -> {"entity", "undefined"}]
       ELSE {[p \in ProposalIds |-> "entity"]}
  /\ argFilter \in CallerFilters
  /\ callerArgFilter = argFilter
  /\ entityBaseArgFilter \in IF layer = "entities" THEN BaseFilters ELSE {EmptyFilter}
  /\ eventBaseArgFilter \in BaseFilters
  /\ eventArgFilter = EmptyFilter
  /\ sourceArgFilter = EmptyFilter
  /\ OtherFetcherIdle
  /\ factory = IF pipeline = "piped" THEN Unpiped ELSE Uncalled
  /\ calls = <<>>
  /\ watching = TRUE
  /\ BusIdle /\ TopicsIdle /\ ServicesIdle

\* Callers publishing and subscribing through TransactionService.
InitBus == FetcherIdle /\ BusIdle /\ TopicsIdle /\ ServicesIdle

\* Callers of the wrappers, with a subscription to every "txReceipts" topic
\* made beforehand.
InitWrappers ==
  /\ FetcherIdle /\ TopicsIdle /\ ServicesIdle
  /\ subs = <<[topics |-> OneTopic(<<"t">>), kind |-> "user", active |-> TRUE,
               superTopic |-> <<>>,
               superPayload |-> EventInfo(NoKey, "optionsA", NoTx, 0),
               since |-> 0, until |-> -1, inbox |-> <<>>]>>
  /\ published = <<>>
  /\ overflow = FALSE
  /\ invocations = <<>>

\* A caller of a ProposalVotingMachineService.
InitVoting ==
  /\ FetcherIdle /\ BusIdle /\ TopicsIdle /\ ProposalServiceIdle
  /\ votingCall \in VotingCalls
  /\ votingOutcome = NotCalled

\* A caller of isTopicSpecifiedBy.
InitTopics ==
  /\ FetcherIdle /\ BusIdle /\ ServicesIdle
  /\ topicArgs \in [topics : TopicArguments, topic : TopicStrings]
  /\ topicMatched = "none"

BusNext ==
  \/ Subscribe \/ resendTxEvents \/ unsubscribe
  \/ publishKickoffEvent \/ publishTx

WrappersNext == Invoke \/ TxCompletes \/ TxFails

SpecEvents == InitEvents /\ [][SourceAnswersGet \/ SourceFiresWatch]_vars
SpecHooks == InitHooks /\ [][SourceAnswersGet \/ SourceFiresWatch]_vars
SpecWatch == InitWatch /\ [][watch \/ stopWatching \/ SourceFiresWatch]_vars
SpecLibEntities == InitLibEntities /\ [][LibSourceAnswers]_vars
\* A caller about to ask a ProposalService for the vote status of a proposal.
InitVoteStatus ==
  /\ FetcherIdle /\ BusIdle /\ TopicsIdle /\ VotingIdle
  /\ psOptions \in VoteStatusOptions
  /\ psOutcome = NotAsked
  /\ votingMachine \in VotingMachines

SpecVoteStatus == InitVoteStatus /\ [][CallGetCurrentVoteStatus]_vars
\* A caller of a VotingMachineService.
InitVotingMachine ==
  /\ FetcherIdle /\ BusIdle /\ TopicsIdle /\ ProposalServiceIdle
  /\ votingCall \in MachineCalls
  /\ votingOutcome = NotCalled

SpecVotingMachine == InitVotingMachine /\ [][CallVotingMachineService]_vars
SpecProposalService ==
  InitProposalService /\
    [][getProposals \/ watchProposals \/ ProposalsGetAnswered \/ ProposalsWatchFired]_vars
\* A caller about to call watchProposals, the runs of the callback taken one
\* await at a time.
InitWatchProposals ==
  InitProposalService /\ psOptions.operation = "watchProposals"

SpecWatchProposals ==
  InitWatchProposals /\
    [][watchProposals \/ WatchBatchArrives \/ ProposalLookedUp \/ CallbackSettles]_vars
SpecTwoFetchers ==
  InitTwoFetchers /\ [][SourceAnswersGet \/ SourceFiresWatch \/ SourceAnswersOther]_vars
SpecEntities == InitEntities /\ [][FetcherNext]_vars
SpecProposals == InitProposals /\ [][getProposalEvents \/ FetcherNext]_vars
SpecBus == InitBus /\ [][BusNext]_vars
SpecWrappers == InitWrappers /\ [][WrappersNext]_vars
SpecTopics == InitTopics /\ [][CallIsTopicSpecifiedBy]_vars
SpecFactories ==
  InitFactories /\ [][fetcherFactory \/ pipeEntityFetcherFactory \/ FetcherNext]_vars
SpecVoting == InitVoting /\ [][CallProposalVotingMachineService]_vars

\* ================================================================ claims
Call(i) == calls[i]
CallIds == 1..Len(calls)

RECURSIVE Concat(_)
\* The concatenation of a sequence of sequences.
Concat(ss) == IF ss = <<>> THEN <<>> ELSE Head(ss) \o Concat(Tail(ss))

\* The entries the source handed over without an error, in delivery order.
Offered ==
  Concat([i \in CallIds |->
            IF Call(i).raw.error = NoError THEN Call(i).raw.log.items ELSE <<>>])

\* The entries passed on to the caller's callback, in delivery order.
PassedOn ==
  Concat([i \in CallIds |->
            IF Call(i).ev.cbCalled THEN Call(i).ev.cbLog.items ELSE <<>>])

WithHash(s, h) == SelectSeq(s, LAMBDA e : e.transactionHash = h)

\* C1: with suppressDups = true, over any sequence of deliveries, the entries
\* of each transaction hash that reach the caller are exactly one: the first
\* entry the source handed over with that hash; later occurrences are dropped.
C1_EachHashPassedOnce ==
  suppressDups = "true" =>
    \A h \in Hashes :
      WithHash(PassedOn, h) =
        IF WithHash(Offered, h) = <<>> THEN <<>> ELSE <<Head(WithHash(Offered, h))>>

\* A hash was handed over three times in two deliveries and passed on once.
C1_Witness ==
  /\ suppressDups = "true"
  /\ Len(calls) = 2
  /\ \E h \in Hashes : Len(WithHash(Offered, h)) = 3 /\ Len(WithHash(PassedOn, h)) = 1
  /\ \A i \in CallIds : Call(i).raw.error = NoError /\ Call(i).raw.log.items # <<>>

ExpectedEntities(log) ==
  LET kept == SelectSeq(log, LAMBDA e : domainTransform[e.args._proposalId] = "entity")
  IN  [k \in 1..Len(kept) |-> EntityOf(kept[k].args)]

NoThrowIn(log) ==
  \A k \in 1..Len(log) : domainTransform[log[k].args._proposalId] # "throw"

\* C3: for a batch delivered without error (whose transforms all resolve),
\* the promise passed to the callback and get's promise resolve to exactly
\* the transform results of the events not resolved to undefined, in event
\* order; an excluded event adds no entry and raises no error.
C3_EntitiesAreFilteredResultsInOrder ==
  \A i \in CallIds :
    LET en == Call(i).en
    IN  (en.started /\ en.cbError = NoError) =>
          /\ en.cbCalled
          /\ en.promiseOfEntities = "resolved" =>
               /\ en.entities = ExpectedEntities(en.log)
               /\ Call(i).via = "get" =>
                    en.getPromise = "resolved" /\ en.getValue = ExpectedEntities(en.log)
          /\ NoThrowIn(en.log) =>
               /\ en.promiseOfEntities \in {"pending", "resolved"}
               /\ en.getPromise # "rejected"
               /\ ~Awaiting(en) => en.promiseOfEntities = "resolved"

\* A get resolved a batch of two events to the one entity of its second
\* event, the first event being excluded.
C3_Witness ==
  \E i \in CallIds :
    LET en == Call(i).en
    IN  /\ Call(i).via = "get" /\ en.getPromise = "resolved"
        /\ Len(en.log) = 2 /\ Len(en.getValue) = 1
        /\ domainTransform[en.log[1].args._proposalId] = "undefined"
        /\ en.getValue[1].proposalId = en.log[2].args._proposalId

\* C4: if the transform throws or rejects for an event of a batch, the
\* promise of entities passed to the callback, and the promise get returned,
\* reject, and no part of the batch is delivered.
C4_ThrowRejectsTheBatch ==
  \A i \in CallIds :
    LET en == Call(i).en
    IN  en.died =>
          /\ en.promiseOfEntities = "rejected"
          /\ Call(i).via = "get" => en.getPromise = "rejected"

\* C5: when the source reports an error to a get issued through an
\* EntityFetcher, the promise EntityFetcher.get returned rejects with it.
C5_SourceErrorRejectsEntityGet ==
  \A i \in CallIds :
    (layer = "entities" /\ Call(i).via = "get" /\ Call(i).raw.error # NoError) =>
      Call(i).en.getPromise = "rejected" /\ Call(i).en.getReason = Call(i).raw.error

\* C10's events: those whose proposal isVotable said true for.
VotableEvents(log) == SelectSeq(log, LAMBDA e : isVotable[e.args._proposalId] = "true")
Finished(en) == en.started /\ en.promiseOfEntities = "resolved"

ProposalIdsOf(s) == [k \in 1..Len(s) |-> s[k].proposalId]

\* C10: in votable-only mode the entities delivered for a batch are exactly
\* the caller's transform results (those that are entities) of the events
\* whose proposal isVotable returned true for, in event order; the caller's
\* transform is never invoked for an event whose proposal is not votable.
C10_VotableOnlyDeliversVotable ==
  votableOnly =>
    \A i \in CallIds :
      LET en == Call(i).en
      IN  /\ \A k \in 1..Len(en.domainCalls) : isVotable[en.domainCalls[k]] = "true"
          /\ Finished(en) =>
               /\ ProposalIdsOf(en.entities) =
                    ProposalIdsOf(ExpectedEntities(VotableEvents(en.log)))
               /\ en.domainCalls =
                    [k \in 1..Len(VotableEvents(en.log)) |->
                       VotableEvents(en.log)[k].args._proposalId]

\* Votable-only, a batch (p1, p2) with p1 not votable and p2 votable: one
\* entity, for p2, and the caller's transform was invoked for p2 alone.
C10_Witness ==
  /\ votableOnly
  /\ \E i \in CallIds :
       LET en == Call(i).en
       IN  /\ Finished(en)
           /\ [k \in 1..Len(en.log) |-> en.log[k].args._proposalId] = <<"p1", "p2">>
           /\ isVotable["p1"] = "false" /\ isVotable["p2"] = "true"
           /\ ProposalIdsOf(en.entities) = <<"p2">>
           /\ en.domainCalls = <<"p2">>

\* ------------------------------------------------ claims about the bus
\* The publishes invocation i made itself, as positions in `published`.
OwnPublishes(i) ==
  { p \in 1..Len(published) : published[p].by = 0 /\ published[p].inv = i }

\* What subscription u was handed of the publishes of invocation i.
InboxOf(u, i) ==
  LET Own(e) == e.pub \in OwnPublishes(i)
  IN  SelectSeq(subs[u].inbox, Own)

\* The envelopes the calls of invocation i are to deliver: the kick-off, then
\* one envelope per transaction published, all with the key, options and
\* txCount of the kick-off.
ExpectedEnvelopes(i) ==
  LET inv == invocations[i]
      With(tx) == [topic |-> inv.topic,
                   payload |-> EventInfo(inv.payload.invocationKey, inv.payload.options,
                                         tx, inv.payload.txCount)]
  IN  (IF inv.suppressed THEN <<>> ELSE <<With(NoTx)>>)
      \o [k \in 1..Len(inv.txs) |-> With(inv.txs[k])]

Handed(inbox) == [k \in 1..Len(inbox) |-> [topic |-> inbox[k].topic, payload |-> inbox[k].payload]]

\* Subscription u was made before invocation i began, is still active and
\* its topics specify the topic of i.
Listens(u, i) ==
  /\ subs[u].kind = "user"
  /\ subs[u].active
  /\ \A p \in OwnPublishes(i) : subs[u].since < p
  /\ isTopicSpecifiedBy(subs[u].topics, invocations[i].topic)

DirectInvocations == { i \in 1..Len(invocations) : invocations[i].fn = "direct" }

\* C6: once the calls made have returned, a subscriber of the topic has been
\* handed, of publishKickoffEvent(topic, options, n) and the k calls of
\* publishTxEvent that followed with the returned payload, exactly 1 + k
\* envelopes in call order: the kick-off with tx null, then one envelope per
\* call with that call's tx, each with the same invocationKey, the same
\* options and txCount = n.
C6_SubscriberGetsKickoffThenEachTx ==
  ~overflow =>
    \A i \in DirectInvocations, u \in 1..Len(subs) :
      (~invocations[i].suppressed /\ Listens(u, i)) =>
        /\ Handed(InboxOf(u, i)) = ExpectedEnvelopes(i)
        /\ Len(InboxOf(u, i)) = 1 + Len(invocations[i].txs)

\* A subscriber has been handed the kick-off and two different transactions
\* of one invocation.
C6_Witness ==
  /\ ~overflow
  /\ \E i \in DirectInvocations, u \in 1..Len(subs) :
       /\ ~invocations[i].suppressed
       /\ Listens(u, i)
       /\ Len(invocations[i].txs) = 2
       /\ Len(InboxOf(u, i)) = 3
       /\ InboxOf(u, i)[2].payload.tx # InboxOf(u, i)[3].payload.tx

\* The publishes the re-sending subscription r has made, and the publishes
\* it was called for while active that carried a tx.
ResentBy(r) ==
  LET By(e) == e.by = r IN SelectSeq(published, By)

Positions(r) ==
  { p \in 1..Len(published) :
      /\ p > subs[r].since
      /\ subs[r].until = -1 \/ p <= subs[r].until
      /\ isTopicSpecifiedBy(subs[r].topics, published[p].topic)
      /\ published[p].payload.tx # NoTx }

RECURSIVE InOrder(_)
InOrder(P) ==
  IF P = {} THEN <<>>
  ELSE LET p == CHOOSE q \in P : \A o \in P : q <= o
       IN  <<published[p]>> \o InOrder(P \ {p})

Resenders == { r \in 1..Len(subs) : subs[r].kind = "resend" }

\* C9: once the calls made have returned, the publishes of a subscription
\* made by resendTxEvents(topics, superTopic, superPayload) are, in order, one
\* per envelope with a tx published while it was active to a topic its topics
\* specify: under superTopic, with the tx of the source envelope and the
\* invocationKey, options and txCount of superPayload; no kick-off is
\* re-published.
C9_ResendsEachTxUnderSuperTopic ==
  ~overflow =>
    \A r \in Resenders :
      LET sources == InOrder(Positions(r))
          resent == ResentBy(r)
          super == subs[r].superPayload
      IN  /\ Len(resent) = Len(sources)
          /\ \A k \in 1..Len(resent) :
               /\ resent[k].topic = subs[r].superTopic
               /\ resent[k].payload =
                    EventInfo(super.invocationKey, super.options,
                              sources[k].payload.tx, super.txCount)
               /\ resent[k].payload.tx # NoTx

\* A re-sending subscription has seen a kick-off and a tx envelope of another
\* invocation than that of its superPayload, and has re-published the latter.
C9_Witness ==
  /\ ~overflow
  /\ \E r \in Resenders, p, q \in 1..Len(published) :
       /\ p > subs[r].since /\ q > p
       /\ isTopicSpecifiedBy(subs[r].topics, published[p].topic)
       /\ published[p].payload.tx = NoTx
       /\ published[q].by = 0
       /\ published[q].payload.tx # NoTx
       /\ published[q].payload.invocationKey # subs[r].superPayload.invocationKey
       /\ published[q].payload.options # subs[r].superPayload.options
       /\ Len(ResentBy(r)) = 1
       /\ ResentBy(r)[1].payload.tx = published[q].payload.tx

\* --------------------------------------------- claims about the wrappers
\* What invocation i has published, in order.
EnvelopesOf(i) ==
  LET Own(e) == e.inv = i
      own == SelectSeq(published, Own)
  IN  [k \in 1..Len(own) |-> [topic |-> own[k].topic, payload |-> own[k].payload]]

\* The transactions a wrapper sends, in order.
TxNames(txCount) == IF txCount = 2 THEN <<"approve", "main">> ELSE <<"main">>

Names(txs) == [k \in 1..Len(txs) |-> txs[k].name]

WrapperInvocations == { i \in 1..Len(invocations) : invocations[i].fn \in WrapperFns }

BeginsWithLevel(t, s) ==
  /\ Len(t) > Len(s)
  /\ \A k \in 1..Len(s) : t[k] = s[k]
  /\ t[Len(s) + 1] = "."

Foo == <<"f", "o", "o">>
FooBar == Foo \o <<".", "b", "a", "r">>
FooBarTest == FooBar \o <<".", "t", "e", "s", "t">>
FoobarTest == Foo \o <<"b", "a", "r", ".", "t", "e", "s", "t">>

\* C8: isTopicSpecifiedBy(S, t) is true exactly when some s in S is "*", or
\* is non-empty and equal to t or followed by "." at the start of t. So "foo"
\* specifies "foo" and "foo.bar.test" but not "foobar.test", "foo.bar" does
\* not specify "foo", and the empty string specifies nothing.
C8_SpecifiedIffWildcardOrLevelPrefix ==
  /\ topicMatched # "none" =>
       LET S == topicArgs.topics.items
           t == topicArgs.topic
       IN  (topicMatched = "true") <=>
             \E k \in 1..Len(S) :
               \/ S[k] = Star
               \/ S[k] # <<>> /\ (S[k] = t \/ BeginsWithLevel(t, S[k]))
  /\ isTopicSpecifiedBy(OneTopic(Foo), Foo)
  /\ isTopicSpecifiedBy(OneTopic(Foo), FooBarTest)
  /\ ~isTopicSpecifiedBy(OneTopic(Foo), FoobarTest)
  /\ ~isTopicSpecifiedBy(OneTopic(FooBar), Foo)
  /\ ~isTopicSpecifiedBy(OneTopic(<<>>), Foo)
  /\ ~isTopicSpecifiedBy(OneTopic(<<>>), <<>>)

\* A list of topics whose second topic alone specifies the topic, by being
\* its first level.
C8_Witness ==
  /\ topicMatched = "true"
  /\ topicArgs.topics.isArray
  /\ Len(topicArgs.topics.items) = 2
  /\ topicArgs.topics.items[1] = <<".">>
  /\ topicArgs.topics.items[2] = <<"a">>
  /\ topicArgs.topic = <<"a", ".", "a">>

\* ------------------------------------- claims about getProposalEvents
\* C11: when votableOnly is true and no votingMachineService is supplied,
\* getProposalEvents throws when it is called: no fetcher is made, the source
\* is never asked and no event is ever transformed.
C11_MissingServiceThrowsAtTheCall ==
  (pipeline \in {"part_006", "part_007"} /\ votableOnly /\ ~hasService) =>
    /\ factory.status \in {"uncalled", "threw"}
    /\ ~receivedEvents.defined
    /\ calls = <<>>

\* getProposalEvents has thrown for the missing votingMachineService.
C11_Witness ==
  /\ votableOnly /\ ~hasService
  /\ factory = Threw("votingMachineService must be supplied when votableOnly is true")
  /\ calls = <<>>

\* The entities the caller's transform yields for a log, in event order.
DomainEntities(log) ==
  LET Yields(e) == domainTransform[e.args._proposalId] = "entity"
      kept == SelectSeq(log, Yields)
  IN  [k \in 1..Len(kept) |-> kept[k].args._proposalId]

\* C12: with votableOnly false, supplied service or not, isVotable is never
\* called, no transform fails, and a batch that has been worked through
\* delivers one entity for every event whose domain transform yields one.
C12_IsVotableAskedOnlyInVotableMode ==
  (pipeline \in {"part_006", "part_007"} /\ ~votableOnly) =>
    \A i \in CallIds :
      LET en == Call(i).en
      IN  /\ en.votableCalls = <<>>
          /\ ~en.died
          /\ Finished(en) => ProposalIdsOf(en.entities) = DomainEntities(en.log)

\* The arguments of the VotingMachineService method corresponding to a call of
\* the proposal-scoped one: the proposal id, then the caller's arguments.
CorrespondingArguments == <<votingCall.proposalId>> \o votingCall.args

\* C13: a method of a ProposalVotingMachineService bound to a proposal comes
\* to what the method of VotingMachineService of the same name comes to when
\* called with that proposal id and the same other arguments: the same
\* contract call with the same arguments, or the same error.
C13_ScopedServiceSameAsUnscoped ==
  votingOutcome # NotCalled =>
    votingOutcome = VotingMachineService(votingCall.method, CorrespondingArguments)


\* The entities a log comes to when the second transform is applied to what
\* the first yields, an event dropping out when either yields undefined.
PipedEntities(log) ==
  LET Yields(e) == /\ domainTransform[e.args._proposalId] = "entity"
                   /\ secondTransform[e.args._proposalId] = "entity"
      kept == SelectSeq(log, Yields)
  IN  [k \in 1..Len(kept) |-> kept[k].args._proposalId]

\* C14: pipeEntityFetcherFactory(f, t2), f made with t1, gives a factory, and
\* a batch a fetcher of that factory has worked through delivers t2(t1(args))
\* for exactly the events for which neither t1 nor t2 yields undefined, in
\* event order.
C14_PipedFetcherDeliversComposition ==
  pipeline = "piped" =>
    /\ factory.status # "threw"
    /\ \A i \in CallIds :
         Finished(Call(i).en) =>
           ProposalIdsOf(Call(i).en.entities) = PipedEntities(Call(i).en.log)

\* The claim of C15 for one merge: every key of the base filter with the
\* base's value, every other key of the caller's filter with the caller's.
MergedBaseFirst(caller, base, handed) ==
  \A k \in FilterKeys :
    /\ HasKey(base, k) => handed.props[k] = base.props[k]
    /\ (~HasKey(base, k) /\ HasKey(caller, k)) => handed.props[k] = caller.props[k]

\* C15: the argFilter a factory hands to its underlying source (the
\* EventFetcherFactory under an EntityFetcherFactory, the contract's event
\* under an EventFetcherFactory) has every key of the factory's base filter
\* with the base's value, and every key of the filter the factory was called
\* with that the base lacks, with the value it was called with.
C15_BaseFilterOverridesCaller ==
  (factory.status = "returned" /\ pipeline = "plain") =>
    IF layer = "entities"
    THEN /\ eventArgFilter.defined /\ sourceArgFilter.defined
         /\ MergedBaseFirst(argFilter, entityBaseArgFilter, eventArgFilter)
         /\ MergedBaseFirst(eventArgFilter, eventBaseArgFilter, sourceArgFilter)
    ELSE /\ sourceArgFilter.defined
         /\ MergedBaseFirst(argFilter, eventBaseArgFilter, sourceArgFilter)

C15_Witness ==
  /\ factory.status = "returned" /\ layer = "entities"
  /\ argFilter.props = [_avatar |-> "a2", _proposalId |-> "a1"]
  /\ entityBaseArgFilter.props["_avatar"] = "a1"
  /\ eventArgFilter.props = [_avatar |-> "a1", _proposalId |-> "a1"]
  /\ sourceArgFilter = eventArgFilter
  /\ calls # <<>>


\* C16: de-duplication is on unless it is switched off: a fetcher whose
\* filterObject does not set suppressDups passes on, like one with
\* suppressDups true, exactly the first entry of each transaction hash;
\* duplicates reach the caller only with suppressDups false.
C16_DedupIsTheDefault ==
  suppressDups \in {"true", "undefined"} =>
    \A h \in Hashes : Len(WithHash(PassedOn, h)) <= 1

\* The occurrences of one log entry in a sequence of entries.
Occurrences(s, e) == SelectSeq(s, LAMBDA x : x = e)

\* C17: with suppressDups true an entry is dropped only when the identical
\* entry (same transaction, same position in its log) was passed on before:
\* every entry the source handed over reaches the caller exactly once, two
\* entries of one transaction both.
C17_OnlyIdenticalEntriesDropped ==
  suppressDups = "true" =>
    \A e \in Events :
      Occurrences(PassedOn, e) = IF Occurrences(Offered, e) = <<>> THEN <<>> ELSE <<e>>


\* The hashes of the entries of a log.
HashesOf(items) == { items[k].transactionHash : k \in 1..Len(items) }

\* C19: with a preProcessEvent hook, every answer of the source to get or
\* watch, error or not, goes through normalisation, de-duplication, the hook
\* and the delivery in that order: the hook is called with an array holding no
\* transaction twice nor one passed to it before (when suppressDups is true),
\* the callback gets the (error, log) the hook returned, and get's promise
\* rejects with the hook's error when it returned one, else resolves to the
\* args of the hook's log.
C19_HookOutputIsWhatIsDelivered ==
  preProcessEvent # "none" =>
    \A i \in CallIds :
      LET c == Call(i)
          out == PreProcess(preProcessEvent, c.ev.hookError, c.ev.hookLog)
      IN  /\ c.ev.hookCalled
          /\ c.ev.hookError = c.raw.error
          /\ c.ev.hookLog.isArray
          /\ suppressDups = "true" =>
               /\ \A h \in Hashes : Len(WithHash(c.ev.hookLog.items, h)) <= 1
               /\ \A j \in 1..(i - 1) :
                    HashesOf(c.ev.hookLog.items) \cap HashesOf(Call(j).ev.hookLog.items) = {}
          /\ c.ev.cbCalled
          /\ c.ev.cbError = out.error
          /\ c.ev.cbLog = out.log
          /\ c.via = "get" =>
               IF out.error # NoError
               THEN c.ev.promise = "rejected" /\ c.ev.reason = out.error
               ELSE c.ev.promise = "resolved" /\ c.ev.value.items = ArgsOf(out.log.items)

\* C20: when the source answers a get of an EventFetcher with an error, the
\* promise get returned rejects with that error, the callback is not called
\* and no log entry is delivered, through the promise or the callback.
C20_GetRejectsOnSourceError ==
  layer = "events" =>
    \A i \in CallIds :
      (Call(i).via = "get" /\ Call(i).raw.error # NoError) =>
        /\ Call(i).ev.promise = "rejected"
        /\ Call(i).ev.reason = Call(i).raw.error
        /\ ~Call(i).ev.cbCalled
        /\ Call(i).ev.cbLog.items = <<>>
        /\ Call(i).ev.value.items = <<>>

\* A get passed an entry on; the next get was answered with an error and
\* rejected with it.
C20_Witness ==
  /\ layer = "events" /\ preProcessEvent = "keeps" /\ Len(calls) = 2
  /\ Call(1).via = "get" /\ Call(1).ev.promise = "resolved"
  /\ Call(1).ev.value.items # <<>>
  /\ Call(2).via = "get" /\ Call(2).raw.error = SourceError
  /\ Call(2).ev.promise = "rejected" /\ Call(2).ev.reason = SourceError
  /\ ~Call(2).ev.cbCalled


\* What the source handed the second fetcher, and what that fetcher passed
\* on, in delivery order.
OtherOffered ==
  Concat([i \in 1..Len(otherCalls) |->
            IF otherCalls[i].raw.error = NoError THEN otherCalls[i].raw.log.items ELSE <<>>])
OtherPassedOn ==
  Concat([i \in 1..Len(otherCalls) |->
            IF otherCalls[i].ev.cbCalled THEN otherCalls[i].ev.cbLog.items ELSE <<>>])

\* What a fetcher with its own Set passes on of the entries handed to it:
\* the first entry of each transaction hash.
FirstOfEachHash(offered, passed) ==
  \A h \in Hashes :
    WithHash(passed, h) =
      IF WithHash(offered, h) = <<>> THEN <<>> ELSE <<Head(WithHash(offered, h))>>

\* C18: the Set of seen transactions belongs to one fetcher: with suppressDups
\* true, what each of two fetchers of one factory passes on depends on the
\* entries handed to that fetcher alone, however the deliveries to the two
\* interleave; an entry one fetcher has passed on is not dropped by the other.
C18_SeenSetIsPerFetcher ==
  (suppressDups = "true" /\ layer = "events" /\ preProcessEvent = "none") =>
    /\ FirstOfEachHash(Offered, PassedOn)
    /\ FirstOfEachHash(OtherOffered, OtherPassedOn)

\* Each of the two fetchers was handed the same entries once, and each
\* passed them on.
C18_Witness ==
  /\ suppressDups = "true"
  /\ Len(calls) = 1 /\ Len(otherCalls) = 1
  /\ PassedOn # <<>>
  /\ OtherOffered = PassedOn
  /\ OtherPassedOn = PassedOn


\* The call the source answered in this step.
Latest == calls'[Len(calls')]

\* C21: when the source reports an error to a watching EventFetcher (without
\* a preProcessEvent hook), the watch callback is called with that error and
\* an empty log, the Set of seen transactions and the registration of the
\* watch stay as they were, and every firing of the source, before or after,
\* reaches the callback.
C21_WatchErrorReachesCallback ==
  [][(Len(calls') = Len(calls) + 1 /\ Latest.via = "watch"
        /\ layer = "events" /\ preProcessEvent = "none") =>
       /\ Latest.ev.cbCalled
       /\ Latest.raw.error # NoError =>
            /\ Latest.ev.cbError = Latest.raw.error
            /\ Latest.ev.cbLog = ArrayOf(<<>>)
            /\ receivedEvents' = receivedEvents
            /\ watching' = watching]_vars

\* A watch passed an entry on, was then handed an error, and is still
\* registered with the same Set.
C21_Witness ==
  /\ layer = "events" /\ preProcessEvent = "none" /\ watching
  /\ Len(calls) = 2
  /\ Call(1).via = "watch" /\ Call(1).ev.cbLog.items # <<>>
  /\ Call(2).via = "watch" /\ Call(2).raw.error = SourceError
  /\ Call(2).ev.cbCalled /\ Call(2).ev.cbError = SourceError
  /\ receivedEvents.set # {}


\* C22: the EntityFetcher of src/lib/web3EventService.ts gives its callback a
\* promise that, when the source reported no error, resolves to the entities
\* of all the events of the batch the transform does not exclude, and, when
\* the source reported an error, rejects with that error.
C22_LibBatchResolvesToAllEntities ==
  pipeline = "lib" =>
    \A i \in CallIds :
      LET c == Call(i)
      IN  IF c.raw.error = NoError
          THEN /\ c.en.promiseOfEntities = "resolved"
               /\ ProposalIdsOf(c.en.entities) = DomainEntities(c.en.log)
          ELSE /\ c.en.promiseOfEntities = "rejected"
               /\ c.en.reason = c.raw.error

\* The watch calls of a ProposalService that the source answered with an error.
FailedProposalWatches ==
  { i \in CallIds : layer = "proposals" /\ Call(i).via = "watch"
                      /\ Call(i).raw.error # NoError }

\* C24: an error the source reports to the watch that watchProposals started
\* is handed to the caller of watchProposals, by a callback, a rejection or
\* an exception.
C24_WatchProposalsSurfacesError ==
  \A i \in FailedProposalWatches :
    \E j \in 1..Len(psOutcome.surfaced) : psOutcome.surfaced[j] = Call(i).raw.error

\* C25: once getProposals or watchProposals has made its fetcher, the argument
\* filter it was made with holds _avatar = options.avatarAddress whenever
\* options.avatarAddress is set, and it is the filter the other operation
\* makes of the same options.
C25_AvatarAlwaysInFilter ==
  (layer = "proposals" /\ psOutcome.status # "uncalled") =>
    /\ psOptions.avatarAddress # Absent =>
         /\ eventArgFilter.defined
         /\ eventArgFilter.props["_avatar"] = psOptions.avatarAddress
    /\ eventArgFilter = GetProposalsArgsFilter(psOptions)
    /\ eventArgFilter = WatchProposalsArgsFilter(psOptions)

\* The proposals of the events the fetcher handed to getProposals' callback.
ProposalsDelivered ==
  [k \in 1..Len(Call(1).ev.cbLog.items) |->
     [proposalId |-> Call(1).ev.cbLog.items[k].args._proposalId,
      avatarAddress |-> psOptions.avatarAddress]]

\* C26: with no perProposalCallback, getProposals resolves, when the source
\* reports no error and every proposal can be built, to one proposal for each event the fetcher delivered, in
\* event order, each with that event's _proposalId.
C26_GetProposalsOnePerEvent ==
  (layer = "proposals" /\ psOptions.operation = "getProposals"
     /\ psOptions.perProposalCallback = "none" /\ Len(calls) = 1
     /\ psOptions.getProposal = "resolves"
     /\ Call(1).raw.error = NoError) =>
    /\ psOutcome.status = "resolved"
    /\ psOutcome.proposals = ProposalsDelivered

\* Two created proposals: getProposals resolved to an array of length 2 that
\* holds each proposalId once.
C26_Witness ==
  /\ layer = "proposals" /\ psOptions.operation = "getProposals"
  /\ psOptions.perProposalCallback = "none" /\ psOptions.avatarAddress = "a1"
  /\ psOutcome.status = "resolved"
  /\ Len(Call(1).raw.log.items) = 2
  /\ ProposalIdsOf(psOutcome.proposals) = <<"p1", "p2">>

\* The length getCurrentVoteStatus's array is to have.
ExpectedChoices ==
  IF votingMachine.abstainAllow THEN votingMachine.numberOfChoices
  ELSE votingMachine.numberOfChoices + 1

\* C27: getCurrentVoteStatus, given an avatar and a proposal, resolves to an
\* array of length getNumberOfChoices(p) when abstaining is allowed and one
\* more when it is not, whose element i is voteStatus(p, i), index 0 included.
C27_VoteStatusPerChoice ==
  (psOptions.operation = "getCurrentVoteStatus" /\ psOutcome.status # "uncalled"
     /\ psOptions.avatarAddress # Absent /\ ~Falsy(psOptions.proposalId)) =>
    /\ psOutcome.status = "resolved"
    /\ Len(psOutcome.voteTotals) = ExpectedChoices
    /\ Len(psOutcome.voteTotals) >= 1
    /\ \A i \in 0..(Len(psOutcome.voteTotals) - 1) :
         /\ psOutcome.voteTotals[i + 1] = votingMachine.voteStatus[i]
         /\ psOutcome.contractCalls[i + 3] =
              ContractCall("voteStatus", <<psOptions.proposalId, Num(i)>>)

\* Two choices, abstaining not allowed: the array has length 3, and the
\* totals of the choices are not all alike.
C27_Witness ==
  /\ psOptions.operation = "getCurrentVoteStatus" /\ psOutcome.status = "resolved"
  /\ votingMachine.numberOfChoices = 2 /\ ~votingMachine.abstainAllow
  /\ Len(psOutcome.voteTotals) = 3
  /\ psOutcome.voteTotals = <<0, 5, 0>>

\* A JavaScript value that is a non-negative integer.
IsChoice(value) == value.type = "number" /\ value.s = "" /\ value.n >= 0

\* C28: vote, ownerVote, voteWithSpecifiedAmounts and voteStatus of
\* VotingMachineService throw, and call nothing on the contract, whenever the
\* choice is not a non-negative integer.
C28_ChoiceValidated ==
  (votingCall.service = "machine" /\ votingCall.method \in VoteMethods
     /\ votingOutcome # NotCalled /\ ~IsChoice(Arg(votingCall.args, 2))) =>
    votingOutcome.kind = "error"

\* C29: a method of VotingMachineService that takes a proposalId throws, and
\* calls nothing on the contract, when the proposalId is missing; propose
\* does so when avatarAddress, proposalParameters or execute is missing.
C29_MissingArgumentsRejected ==
  (votingCall.service = "machine" /\ votingOutcome # NotCalled) =>
    /\ (votingCall.method \in VotingMethods /\ Falsy(Arg(votingCall.args, 1))) =>
         votingOutcome = Throws(ProposalIdError)
    /\ (votingCall.method = "propose"
          /\ \E i \in 2..4 : Falsy(Arg(votingCall.args, i))) =>
         /\ votingOutcome.kind = "error"
         /\ votingOutcome.error \in {"avatar is not defined", ParametersError, ExecuteError}

\* vote was called without a proposalId and with a valid choice, and threw.
C29_Witness ==
  /\ votingCall.service = "machine" /\ votingCall.method = "vote"
  /\ votingCall.args = <<Undefined, Num(1)>>
  /\ votingOutcome = Throws(ProposalIdError)

\* The envelopes published under the invocationKey of invocation i, in order.
UnderKeyOf(i) ==
  LET Keyed(e) == e.payload.invocationKey = invocations[i].payload.invocationKey
  IN  SelectSeq(published, Keyed)

\* Those of them that carry a transaction.
ReceiptsUnderKeyOf(i) ==
  LET Carries(e) == e.payload.tx # NoTx
  IN  SelectSeq(UnderKeyOf(i), Carries)

\* C30: at every moment of an invocation of stake, proposeContributionReward
\* or create, failed or not, the envelopes with a transaction published under
\* its invocationKey are no more than the txCount of its kick-off, and every
\* envelope under the key carries that txCount.
C30_ReceiptsWithinTxCount ==
  \A i \in WrapperInvocations :
    invocations[i].payload.invocationKey # NoKey =>
      /\ UnderKeyOf(i) # <<>>
      /\ UnderKeyOf(i)[1].payload.tx = NoTx
      /\ Len(ReceiptsUnderKeyOf(i)) <= UnderKeyOf(i)[1].payload.txCount
      /\ \A k \in 1..Len(UnderKeyOf(i)) :
           UnderKeyOf(i)[k].payload.txCount = UnderKeyOf(i)[1].payload.txCount

\* An invocation announced two transactions, published the receipt of the
\* approval and then failed in its main transaction.
C30_Witness ==
  \E i \in WrapperInvocations :
    /\ invocations[i].pc = "threw"
    /\ Len(UnderKeyOf(i)) = 2
    /\ UnderKeyOf(i)[1].payload.txCount = 2
    /\ UnderKeyOf(i)[2].payload.tx.name = "approve"

\* The publishes a step adds that a function made itself with a transaction.
NewTxPublishes ==
  { p \in (Len(published) + 1)..Len(published') :
      published'[p].by = 0 /\ published'[p].payload.tx # NoTx }

\* C31: a publishTxEvent leaves the envelope publishKickoffEvent returned as
\* it was, tx null and invocationKey, options and txCount unchanged, and what
\* it publishes is that envelope with tx set to the receipt of the call.
C31_PublishLeavesEnvelopeAlone ==
  [][/\ \A i \in 1..Len(invocations) :
          /\ invocations'[i].payload = invocations[i].payload
          /\ invocations'[i].payload.tx = NoTx
     /\ \A p \in NewTxPublishes :
          LET inv == invocations[published'[p].inv]
          IN  /\ Len(invocations'[published'[p].inv].txs) = Len(inv.txs) + 1
              /\ published'[p].payload.tx
                   = invocations'[published'[p].inv].txs[Len(inv.txs) + 1]
              /\ published'[p].payload
                   = [inv.payload EXCEPT !.tx = published'[p].payload.tx]]_vars

\* An invocation has published two transactions after its kick-off and the
\* envelope it holds still has no tx.
C31_Witness ==
  \E i \in 1..Len(invocations) :
    /\ invocations[i].fn = "direct"
    /\ Len(invocations[i].txs) = 2
    /\ Cardinality(OwnPublishes(i)) = 3
    /\ invocations[i].payload.tx = NoTx

\* The invocations that got the key k.
InvocationsWithKey(k) ==
  { i \in 1..Len(invocations) : invocations[i].payload.invocationKey = k }

\* C32: the keys generateInvocationKey has returned are all different,
\* whatever the topics, and the invocationKey of every envelope a subscriber
\* was handed is the key of one invocation only: the one that published it.
C32_KeysIdentifyInvocations ==
  /\ \A i, j \in 1..Len(invocations) :
       (i # j /\ invocations[i].payload.invocationKey # NoKey) =>
         invocations[i].payload.invocationKey # invocations[j].payload.invocationKey
  /\ \A u \in 1..Len(subs) : \A k \in 1..Len(subs[u].inbox) :
       LET e == subs[u].inbox[k]
       IN  published[e.pub].by = 0 =>
             InvocationsWithKey(e.payload.invocationKey) = {published[e.pub].inv}

\* Two invocations of one function have interleaved their publishes: the
\* subscriber was handed the kick-off of the first, the kick-off of the
\* second and then a receipt of the first, all under one topic.
C32_Witness ==
  /\ Len(invocations) = 2
  /\ invocations[1].topic = invocations[2].topic
  /\ Len(subs[1].inbox) = 3
  /\ subs[1].inbox[1].payload.invocationKey = invocations[1].payload.invocationKey
  /\ subs[1].inbox[2].payload.invocationKey = invocations[2].payload.invocationKey
  /\ subs[1].inbox[3].payload.invocationKey = invocations[1].payload.invocationKey
  /\ subs[1].inbox[3].payload.tx # NoTx

\* The events of a log that part_007 delivers an entity for.
EventsDelivered(log) ==
  LET Yields(e) ==
        /\ ~votableOnly \/ isVotable[e.args._proposalId] = "true"
        /\ domainTransform[e.args._proposalId] = "entity"
  IN  SelectSeq(log, Yields)

\* C33: an entity getProposalEvents of part_007 delivers carries the service
\* the factory made for its event's _proposalId when the proposal was votable
\* and none when it was not; in votable-only mode every entity carries one.
C33_VotableEntitiesCarryTheirService ==
  pipeline = "part_007" =>
    \A i \in CallIds :
      LET en == Call(i).en
      IN  Finished(en) =>
            /\ Len(en.entities) = Len(EventsDelivered(en.log))
            /\ \A k \in 1..Len(en.entities) :
                 LET p == EventsDelivered(en.log)[k].args._proposalId
                 IN  /\ isVotable[p] = "true" => en.entities[k].votingMachineService = p
                     /\ isVotable[p] # "true" => en.entities[k].votingMachineService = "none"
                     /\ votableOnly => en.entities[k].votingMachineService = p

\* Not votable-only, a batch (p1, p2) with p1 not votable and p2 votable:
\* two entities, the second alone with a service, that of p2.
C33_Witness ==
  /\ pipeline = "part_007" /\ ~votableOnly
  /\ isVotable["p1"] = "false" /\ isVotable["p2"] = "true"
  /\ \E i \in CallIds :
       LET en == Call(i).en
       IN  /\ Finished(en)
           /\ ProposalIdsOf(en.entities) = <<"p1", "p2">>
           /\ en.entities[1].votingMachineService = "none"
           /\ en.entities[2].votingMachineService = "p2"

\* The events getProposals' callback was handed, and their proposals.
EventsHanded == Call(1).ev.cbLog.items
ProposalsHanded == [k \in 1..Len(EventsHanded) |-> ProposalOf(EventsHanded[k], psOptions)]

\* The events up to and including the first one perProposalCallback asks to
\* stop at: all the events when it never asks.
UpToStop ==
  IF \E k \in 1..Len(EventsHanded) : Stops(psOptions.perProposalCallback, ProposalsHanded[k])
  THEN CHOOSE k \in 1..Len(EventsHanded) :
         /\ Stops(psOptions.perProposalCallback, ProposalsHanded[k])
         /\ \A j \in 1..(k - 1) : ~Stops(psOptions.perProposalCallback, ProposalsHanded[j])
  ELSE Len(EventsHanded)

\* C35: getProposals with a perProposalCallback looks the proposals up and
\* hands them to the callback in event order; when the callback resolves
\* true at an event the promise resolves to the proposals of the events
\* before it, and no later event is looked up or handed to the callback.
C35_StopEndsTheWalk ==
  (layer = "proposals" /\ psOptions.operation = "getProposals"
     /\ psOptions.perProposalCallback \in {"continues", "stopsAtP2"}
     /\ psOptions.getProposal = "resolves"
     /\ Len(calls) = 1 /\ Call(1).raw.error = NoError) =>
    /\ psOutcome.status = "resolved"
    /\ psOutcome.fetched = [k \in 1..UpToStop |-> ProposalsHanded[k].proposalId]
    /\ psOutcome.reported = SubSeq(ProposalsHanded, 1, UpToStop)
    /\ psOutcome.proposals =
         IF \E k \in 1..Len(EventsHanded) :
              Stops(psOptions.perProposalCallback, ProposalsHanded[k])
         THEN SubSeq(ProposalsHanded, 1, UpToStop - 1)
         ELSE ProposalsHanded

\* The log had the proposals p1, p2, p1 and the callback asked to stop at p2:
\* the promise resolved to the first p1 alone, and the last p1 was neither
\* looked up nor handed to the callback.
C35_Witness ==
  /\ layer = "proposals" /\ psOptions.operation = "getProposals"
  /\ psOptions.perProposalCallback = "stopsAtP2"
  /\ psOutcome.status = "resolved"
  /\ Len(EventsHanded) = 3
  /\ ProposalIdsOf(ProposalsHanded) = <<"p1", "p2", "p1">>
  /\ ProposalIdsOf(psOutcome.proposals) = <<"p1">>
  /\ psOutcome.fetched = <<"p1", "p2">>
  /\ ProposalIdsOf(psOutcome.reported) = <<"p1", "p2">>

\* C36: once the source has called getProposals' callback back, the promise
\* of getProposals is settled: resolved, or rejected when the source reported
\* an error or a lookup or perProposalCallback threw or rejected.
C36_GetProposalsSettles ==
  (layer = "proposals" /\ psOptions.operation = "getProposals" /\ Len(calls) = 1) =>
    psOutcome.status \in {"resolved", "rejected"}

\* C34: in watchProposals, once perProposalCallback has resolved true and the
\* watch is stopped, perProposalCallback is not invoked for any further
\* proposal, those of a run that started while an earlier run was awaiting a
\* lookup included.
C34_NoCallbackAfterStop ==
  [][(layer = "proposals" /\ psOptions.operation = "watchProposals"
      /\ psOutcome.status = "watching" /\ ~watching)
     => psOutcome'.reported = psOutcome.reported]_vars

\* The publishes a resend subscription was called with: those carrying a tx
\* under a topic its topics specify, made while it was subscribed.
TxPublishesSeenBy(k) ==
  { p \in 1..Len(published) :
      /\ published[p].payload.tx # NoTx
      /\ isTopicSpecifiedBy(subs[k].topics, published[p].topic)
      /\ p > subs[k].since
      /\ (subs[k].until = -1 \/ p <= subs[k].until) }

\* C37: with resendTxEvents, each tx-carrying envelope published to a source
\* topic results in exactly one publish under superTopic, also when
\* superTopic is itself specified by a subscribed topic: the re-published
\* envelope is not re-published again.
C37_OneResendPerTxEnvelope ==
  \A k \in 1..Len(subs) :
    subs[k].kind = "resend" =>
      /\ Cardinality({ p \in 1..Len(published) : published[p].by = k })
           = Cardinality({ p \in TxPublishesSeenBy(k) : published[p].by # k })
      /\ ~overflow

\* C38: making a fetcher from a factory built with a base argument filter
\* leaves the caller's argFilter object as it was: the same keys with the
\* same values after the call as before it.
C38_CallerFilterUntouched ==
  (layer \in {"events", "entities"} /\ factory.status = "returned")
    => callerArgFilter = argFilter

\* The transaction hashes of the entries a call passed on.
HashesPassedOn(call) == HashesOf(call.ev.cbLog.items)

\* C39: the Set of seen transaction hashes of a de-duplicating fetcher is one
\* for all its get and watch calls and never loses a hash: in every step the
\* Set keeps what it held, and a later get or watch passes on no entry whose
\* hash an earlier get of the same fetcher has passed on.
C39_SeenSetSharedAndKept ==
  [][(layer = "events" /\ suppressDups = "true") =>
       /\ receivedEvents.set \subseteq receivedEvents'.set
       /\ \A j \in (Len(calls) + 1)..Len(calls') :
            /\ HashesPassedOn(calls'[j]) \subseteq receivedEvents'.set
            /\ \A i \in CallIds :
                 Call(i).via = "get" =>
                   HashesPassedOn(Call(i)) \cap HashesPassedOn(calls'[j]) = {}]_vars

\* A get passed on an entry; a later firing of the watch was handed an entry
\* of the same hash together with one of a new hash and passed on the new
\* one alone.
C39_Witness ==
  /\ layer = "events" /\ suppressDups = "true"
  /\ Len(calls) = 2
  /\ Call(1).via = "get" /\ Call(1).ev.promise = "resolved"
  /\ Call(2).via = "watch"
  /\ Len(Call(1).ev.cbLog.items) = 1
  /\ Len(Call(2).raw.log.items) = 2
  /\ Call(2).raw.log.items[1].transactionHash =
       Call(1).ev.cbLog.items[1].transactionHash
  /\ Len(Call(2).ev.cbLog.items) = 1
  /\ Call(2).ev.cbLog.items[1] = Call(2).raw.log.items[2]
  /\ Cardinality(receivedEvents.set) = 2

====
